---- MODULE Spec2Model ----
(***************************************************************************)
(* TransactionContext of transaction-context/src/lib.rs: the pool of       *)
(* account slots with their RefCell borrow flags, the instruction trace    *)
(* and stack, push / pop, and the BorrowedAccount handles.                  *)
(*                                                                         *)
(* Indices are the source's (0-based); sequences are 1-based, so slot i of *)
(* a vector v is v[i + 1].                                                  *)
(***************************************************************************)
EXTENDS Integers, Sequences, FiniteSets, TLC

VARIABLES
    account_keys,                 \* TransactionContext.account_keys
    accounts,                     \* TransactionAccounts.accounts (the values in the RefCells)
    borrow_flag,                  \* the RefCell borrow state of each slot: -1 writing, n > 0 readers
    handles,                      \* the BorrowedAccount (or bare RefMut) that holds a slot's exclusive borrow
    holders,                      \* history: the RefMut (writers) and Ref (readers) values alive on each slot
    touched_flags,                \* TransactionAccounts.touched_flags
    resize_delta,                 \* TransactionAccounts.resize_delta
    instruction_stack_capacity,
    instruction_trace_capacity,
    instruction_stack,
    instruction_trace,
    top_level_instruction_index,
    remove_accounts_executable_flag_checks,
    region,                       \* the MemoryRegion of an account that the access violation handler is given
    debug_assertions,             \* the build: cfg(debug_assertions), debug_assert! panics
    initial_data_len,             \* history: the data length of each account at construction
    initial_accounts,             \* history: the accounts at construction
    rent,                         \* TransactionContext.rent: the least balance that is rent exempt
    last,                         \* history: the last call and what it returned, "other" after
                                  \* a drop, a forget or a configure (and, in Spec, a borrow)
    pops_seen,                    \* history: pop calls that removed a stack entry
    call_depth_failures,          \* history: push calls that returned CallDepth
    height_before_push            \* history: trace index of each Ok push -> stack height before it

vars == <<account_keys, accounts, borrow_flag, handles, holders, touched_flags,
          resize_delta, instruction_stack_capacity, instruction_trace_capacity,
          instruction_stack, instruction_trace, top_level_instruction_index,
          remove_accounts_executable_flag_checks, region, debug_assertions,
          initial_data_len, initial_accounts, rent, last, pops_seen, call_depth_failures,
          height_before_push>>

\* ------------------------------------------------------------------ bounds

MaxLamports == 1
MaxOutstandingBorrows == 1
MaxCoexistingBorrows == 2
MaxExtendedLength == 1

\* ------------------------------------------------------------ byte vectors

\* A byte vector is its length and its non-zero bytes (position -> byte);
\* every other position holds 0.
ZeroData(n) == [len |-> n, nz |-> {}]

ByteAt(data, pos) ==
    IF \E p \in data.nz : p[1] = pos
    THEN (CHOOSE p \in data.nz : p[1] = pos)[2]
    ELSE 0

SetByte(data, pos, byte) ==
    [data EXCEPT !.nz = {p \in data.nz : p[1] # pos}
                        \cup (IF byte = 0 THEN {} ELSE {<<pos, byte>>})]

\* u16::to_le_bytes of `value as u16`
LeBytesU16(value) == <<(value % 65536) % 256, (value % 65536) \div 256>>

\* solana_instructions_sysvar::store_current_index_checked: the index goes
\* into the last two bytes of the data.
StoreCurrentIndexChecked(data, index) ==
    IF data.len < 2
    THEN [res |-> "AccountDataTooSmall", data |-> data]
    ELSE [res |-> "Ok",
          data |-> SetByte(SetByte(data, data.len - 2, LeBytesU16(index)[1]),
                           data.len - 1, LeBytesU16(index)[2])]

\* ----------------------------------------------------------------- frames

InstructionAccount(index_in_transaction, index_in_callee, is_signer, is_writable) ==
    [index_in_transaction |-> index_in_transaction,
     index_in_callee |-> index_in_callee,
     is_signer |-> is_signer,
     is_writable |-> is_writable]

\* InstructionContext::default()
DefaultInstructionContext ==
    [nesting_level |-> 0,
     instruction_accounts_lamport_sum |-> 0,
     program_accounts |-> <<>>,
     instruction_accounts |-> <<>>,
     instruction_data |-> <<>>]

\* The arguments configure is called with. Slot 0 is the program, slots 1
\* and 2 are data accounts, index 7 is no slot of the transaction. The second
\* input lists slot 1 twice, the third entry marked as a duplicate of the
\* first, and slot 2 read-only; the third input names a program account that
\* does not exist.
ConfigureInputs ==
    { [program_accounts |-> <<>>, instruction_accounts |-> <<>>, instruction_data |-> <<>>],
      [program_accounts |-> <<0>>,
       instruction_accounts |-> <<InstructionAccount(1, 0, TRUE, TRUE),
                                  InstructionAccount(2, 1, FALSE, FALSE),
                                  InstructionAccount(1, 0, TRUE, TRUE)>>,
       instruction_data |-> <<1>>],
      [program_accounts |-> <<7>>,
       instruction_accounts |-> <<InstructionAccount(1, 0, FALSE, TRUE)>>,
       instruction_data |-> <<>>] }

\* ---------------------------------------------------------------- helpers

NumberOfAccounts == Len(accounts)

InRange(index) == index >= 0 /\ index < NumberOfAccounts

Last(seq) == seq[Len(seq)]

Front(seq) == SubSeq(seq, 1, Len(seq) - 1)

\* TransactionContext::find_index_of_account: the first slot with the key, or -1
FindIndexOfAccount(pubkey) ==
    IF \E i \in 0..(NumberOfAccounts - 1) : account_keys[i + 1] = pubkey
    THEN CHOOSE i \in 0..(NumberOfAccounts - 1) :
            /\ account_keys[i + 1] = pubkey
            /\ \A j \in 0..(i - 1) : account_keys[j + 1] # pubkey
    ELSE -1

IsInstructionAccountDuplicateNever(frame, k) == FALSE

IsInstructionAccountDuplicateByLookup(frame, k) ==
    \E j \in 0..(k - 1) :
        frame.instruction_accounts[j + 1].index_in_transaction =
            frame.instruction_accounts[k + 1].index_in_transaction

\* InstructionContext::is_instruction_account_duplicate(k).is_some()
IsInstructionAccountDuplicate(frame, k) ==
    frame.instruction_accounts[k + 1].index_in_callee # k

\* RefCell::try_borrow succeeds
CanBorrow(index) == borrow_flag[index + 1] >= 0

\* RefCell::try_borrow_mut succeeds
CanBorrowMutWhileRead(index) == borrow_flag[index + 1] >= 0

CanBorrowMut(index) == borrow_flag[index + 1] = 0

\* TransactionContext::instruction_accounts_lamport_sum, from instruction
\* account k on with the sum so far: [res, sum]. The sum is a u128 of at most
\* 2^16 u64 terms, so checked_add never returns None.
RECURSIVE LamportSumFrom(_, _, _)
LamportSumFrom(frame, k, sum) ==
    IF k >= Len(frame.instruction_accounts)
    THEN [res |-> "Ok", sum |-> sum]
    ELSE IF IsInstructionAccountDuplicate(frame, k)
    THEN LamportSumFrom(frame, k + 1, sum)
    ELSE LET index_in_transaction == frame.instruction_accounts[k + 1].index_in_transaction
         IN IF ~InRange(index_in_transaction)
            THEN [res |-> "NotEnoughAccountKeys", sum |-> 0]
            ELSE IF ~CanBorrow(index_in_transaction)
            THEN [res |-> "AccountBorrowOutstanding", sum |-> 0]
            ELSE LamportSumFrom(frame, k + 1,
                                accounts[index_in_transaction + 1].lamports + sum)

InstructionAccountsLamportSum(frame) == LamportSumFrom(frame, 0, 0)

\* TransactionContext::get_current_instruction_context, stack not empty
CurrentInstructionContext == instruction_trace[Last(instruction_stack) + 1]

\* TransactionContext::get_instruction_trace_length
InstructionTraceLength == Len(instruction_trace) - 1

\* A BorrowedAccount borrows the TransactionContext itself (&'a), so push,
\* pop and configure (&mut self) cannot be called while one is in scope. A
\* leaked handle or a RefMut taken through a clone of the Rc keeps only the
\* slot's borrow flag set.
\* The value of `last` after a call other than push, pop and set_lamports
Other == [op |-> "other", res |-> "Ok"]

NoHandle == [st |-> "none", frame |-> -1, index_in_instruction_accounts |-> -1]

LeakedHandle == [st |-> "leaked", frame |-> -1, index_in_instruction_accounts |-> -1]

NoHolders == [writers |-> 0, readers |-> 0]

\* No account is mapped in the VM
NoRegion == [vm_addr |-> 0, len |-> 0, host_addr |-> "none", writable |-> FALSE,
             access_violation_handler_payload |-> -1]

NoLiveHandle == \A i \in 1..Len(handles) : handles[i].st # "live"

\* The Ref and RefMut values alive over all slots
RECURSIVE OutstandingBorrowsFrom(_)
OutstandingBorrowsFrom(i) ==
    IF i > Len(borrow_flag) THEN 0
    ELSE (IF borrow_flag[i] < 0 THEN 1 ELSE borrow_flag[i]) + OutstandingBorrowsFrom(i + 1)

OutstandingBorrows == OutstandingBorrowsFrom(1)

\* ------------------------------------------------------------------- Init

Account(lamports, owner, executable, data) ==
    [lamports |-> lamports, owner |-> owner, executable |-> executable, data |-> data]

\* The instructions sysvar account with the given owner and data length
InstructionsSysvar(owner, len) == <<"INSTRUCTIONS", Account(1, owner, FALSE, ZeroData(len))>>

\* The arguments of TransactionContext::new: the third account of the
\* transaction (an ordinary account, or the instructions sysvar with the right
\* or a wrong owner and data of some length) and the two capacities. The
\* sysvar accounts are those of test_instructions_sysvar_store_index_checked
\* (wrong owner, right owner with too little data, right owner with enough).
Constructions ==
    { [third |-> <<"B", Account(1, "P", FALSE, ZeroData(0))>>, stack |-> 2, trace |-> 2],
      [third |-> <<"B", Account(1, "P", FALSE, ZeroData(0))>>, stack |-> 1, trace |-> 2],
      [third |-> InstructionsSysvar("P", 2), stack |-> 1, trace |-> 1],
      [third |-> InstructionsSysvar("SYSVAR", 0), stack |-> 1, trace |-> 1],
      [third |-> InstructionsSysvar("SYSVAR", 1), stack |-> 1, trace |-> 1],
      [third |-> InstructionsSysvar("SYSVAR", 2), stack |-> 1, trace |-> 1],
      [third |-> InstructionsSysvar("SYSVAR", 3), stack |-> 1, trace |-> 1] }

\* The contexts with a valid instructions sysvar account (two bytes of data,
\* or three) and room for nested and for successive top-level instructions
SysvarConstructions ==
    { [third |-> InstructionsSysvar("SYSVAR", 2), stack |-> 2, trace |-> 4],
      [third |-> InstructionsSysvar("SYSVAR", 3), stack |-> 2, trace |-> 4] }

\* The (key, account) pairs of a construction: the program, account A, and
\* the others
TransactionAccountsOf(new) ==
    << <<"P", Account(1, "LOADER", TRUE, ZeroData(0))>>,
       <<"A", Account(1, "P", FALSE, ZeroData(0))>>,
       new.third >>
    \o (IF "rest" \in DOMAIN new THEN new.rest ELSE << >>)

\* TransactionContext::new, called with one of the given arguments on one of
\* the given builds
NewOn(constructions, builds) ==
    /\ \E new \in constructions :
         LET transaction_accounts == TransactionAccountsOf(new)
             slots == 1..Len(transaction_accounts)
         IN /\ account_keys = [i \in slots |-> transaction_accounts[i][1]]
            /\ accounts = [i \in slots |-> transaction_accounts[i][2]]
            /\ initial_data_len = [i \in slots |-> transaction_accounts[i][2].data.len]
            /\ initial_accounts = [i \in slots |-> transaction_accounts[i][2]]
            /\ rent = (IF "rent" \in DOMAIN new THEN new.rent ELSE 0)
            /\ borrow_flag = [i \in slots |-> 0]
            /\ handles = [i \in slots |-> NoHandle]
            /\ holders = [i \in slots |-> NoHolders]
            /\ touched_flags = [i \in slots |-> FALSE]
            /\ instruction_stack_capacity = new.stack
            /\ instruction_trace_capacity = new.trace
    /\ debug_assertions \in builds
    /\ resize_delta = 0
    /\ instruction_stack = <<>>
    /\ instruction_trace = <<DefaultInstructionContext>>
    /\ top_level_instruction_index = 0
    /\ remove_accounts_executable_flag_checks = TRUE
    /\ region = NoRegion
    /\ last = [op |-> "new", res |-> "Ok"]
    /\ pops_seen = 0
    /\ call_depth_failures = 0
    /\ height_before_push = << >>

\* TransactionContext::new in a build without debug assertions (no
\* debug_assert! lies on the paths of push, pop and the borrows)
New(constructions) == NewOn(constructions, {FALSE})

Init == New(Constructions)

poolVars == <<account_keys, accounts, borrow_flag, handles, holders, touched_flags,
              resize_delta>>

frameVars == <<instruction_stack_capacity, instruction_trace_capacity, instruction_stack,
               instruction_trace, top_level_instruction_index>>

historyVars == <<pops_seen, call_depth_failures, height_before_push>>

\* What surrounds the context: the VM's memory region, the build, the rent,
\* and the accounts (and their data lengths) at construction
envVars == <<region, debug_assertions, initial_data_len, initial_accounts, rent>>

\* -------------------------------------------------------------- configure

\* get_next_instruction_context_mut()?.configure(..): only the three vectors
\* of the tail frame are assigned.
Configure(input) ==
    /\ NoLiveHandle
    /\ instruction_trace' =
         [instruction_trace EXCEPT ![Len(instruction_trace)] =
            [@ EXCEPT !.program_accounts = input.program_accounts,
                      !.instruction_accounts = input.instruction_accounts,
                      !.instruction_data = input.instruction_data]]
    /\ last' = Other
    /\ UNCHANGED <<poolVars, instruction_stack_capacity, instruction_trace_capacity,
                   instruction_stack, top_level_instruction_index,
                   remove_accounts_executable_flag_checks, historyVars, envVars>>

\* ------------------------------------------------------------------- push

TraceLimitOffByOne(index_in_trace) == index_in_trace > instruction_trace_capacity

\* push: index_in_trace >= self.instruction_trace_capacity
TraceLimitReached(index_in_trace) == index_in_trace >= instruction_trace_capacity

StackLimitOffByOne(nesting_level) == nesting_level > instruction_stack_capacity

\* push: nesting_level >= self.instruction_stack_capacity
StackLimitReached(nesting_level) == nesting_level >= instruction_stack_capacity

CallerNeverUnbalanced(original, current) == FALSE

\* push: the comparison of the caller's recorded and current lamport sums
CallerUnbalanced(original, current) == original # current

StoreInstructionsSysvarAnyOwner(account, index) ==
    LET stored == StoreCurrentIndexChecked(account.data, index)
    IN [res |-> stored.res, account |-> [account EXCEPT !.data = stored.data]]

\* push: the checks and the write on the borrowed instructions sysvar
\* account: [res, account]
StoreInstructionsSysvar(account, index) ==
    IF account.owner # "SYSVAR"
    THEN [res |-> "InvalidAccountOwner", account |-> account]
    ELSE LET stored == StoreCurrentIndexChecked(account.data, index)
         IN [res |-> stored.res, account |-> [account EXCEPT !.data = stored.data]]

InstructionsSysvarStepStoringHeight ==
    LET index_in_transaction == FindIndexOfAccount("INSTRUCTIONS")
    IN IF index_in_transaction = -1
       THEN [res |-> "Ok", accounts |-> accounts]
       ELSE IF ~CanBorrowMut(index_in_transaction)
       THEN [res |-> "AccountBorrowFailed", accounts |-> accounts]
       ELSE LET stored == StoreInstructionsSysvar(accounts[index_in_transaction + 1],
                                                  Len(instruction_stack))
            IN [res |-> stored.res,
                accounts |-> [accounts EXCEPT ![index_in_transaction + 1] = stored.account]]

\* push: the instructions sysvar step, after the frame went on the stack:
\* [res, accounts]
InstructionsSysvarStep ==
    LET index_in_transaction == FindIndexOfAccount("INSTRUCTIONS")
    IN IF index_in_transaction = -1
       THEN [res |-> "Ok", accounts |-> accounts]
       ELSE IF ~CanBorrowMut(index_in_transaction)
       THEN [res |-> "AccountBorrowFailed", accounts |-> accounts]
       ELSE LET stored == StoreInstructionsSysvar(accounts[index_in_transaction + 1],
                                                  top_level_instruction_index)
            IN [res |-> stored.res,
                accounts |-> [accounts EXCEPT ![index_in_transaction + 1] = stored.account]]

FrozenTraceWithoutNestingLevel(nesting_level, lamport_sum) ==
    [instruction_trace EXCEPT ![Len(instruction_trace)] =
        [@ EXCEPT !.instruction_accounts_lamport_sum = lamport_sum]]

FrozenTraceWritingFirstFrame(nesting_level, lamport_sum) ==
    [instruction_trace EXCEPT ![1] =
        [@ EXCEPT !.nesting_level = nesting_level,
                  !.instruction_accounts_lamport_sum = lamport_sum]]

\* push: the tail frame with nesting_level and lamport sum written
FrozenTrace(nesting_level, lamport_sum) ==
    [instruction_trace EXCEPT ![Len(instruction_trace)] =
        [@ EXCEPT !.nesting_level = nesting_level,
                  !.instruction_accounts_lamport_sum = lamport_sum]]

AppendNoFrame(trace) == trace

\* push: self.instruction_trace.push(InstructionContext::default())
AppendNextFrame(trace) == Append(trace, DefaultInstructionContext)

RejectedAfterWrite(res) ==
    [res |-> res, stack |-> instruction_stack,
     trace |-> FrozenTrace(Len(instruction_stack) + 1, 0), accounts |-> accounts]

\* push: the return of an error of the lamport sums or of the caller's
\* balance, before anything is written
Rejected(res) ==
    [res |-> res, stack |-> instruction_stack, trace |-> instruction_trace,
     accounts |-> accounts]

\* TransactionContext::push: what it returns and the stack, trace and accounts
\* it leaves.
PushOutcome ==
    LET nesting_level == Len(instruction_stack)
        callee_sum == InstructionAccountsLamportSum(Last(instruction_trace))
    IN IF callee_sum.res # "Ok" THEN Rejected(callee_sum.res)
       ELSE LET caller_sum ==
                    IF instruction_stack # <<>>
                    THEN InstructionAccountsLamportSum(CurrentInstructionContext)
                    ELSE [res |-> "Ok", sum |-> 0]
            IN IF caller_sum.res # "Ok" THEN Rejected(caller_sum.res)
               ELSE IF /\ instruction_stack # <<>>
                       /\ CallerUnbalanced(
                              CurrentInstructionContext.instruction_accounts_lamport_sum,
                              caller_sum.sum)
               THEN Rejected("UnbalancedInstruction")
               ELSE LET written == FrozenTrace(nesting_level, callee_sum.sum)
                        index_in_trace == InstructionTraceLength
                    IN IF TraceLimitReached(index_in_trace)
                       THEN [res |-> "MaxInstructionTraceLengthExceeded",
                             stack |-> instruction_stack, trace |-> written,
                             accounts |-> accounts]
                       ELSE IF StackLimitReached(nesting_level)
                       THEN [res |-> "CallDepth", stack |-> instruction_stack,
                             trace |-> AppendNextFrame(written), accounts |-> accounts]
                       ELSE [res |-> InstructionsSysvarStep.res,
                             stack |-> Append(instruction_stack, index_in_trace),
                             trace |-> AppendNextFrame(written),
                             accounts |-> InstructionsSysvarStep.accounts]

Push ==
    /\ NoLiveHandle
    /\ instruction_stack' = PushOutcome.stack
    /\ instruction_trace' = PushOutcome.trace
    /\ accounts' = PushOutcome.accounts
    /\ last' = [op |-> "push", res |-> PushOutcome.res]
    /\ call_depth_failures' =
         call_depth_failures + (IF PushOutcome.res = "CallDepth" THEN 1 ELSE 0)
    /\ height_before_push' =
         IF Len(PushOutcome.trace) = Len(instruction_trace)
         THEN height_before_push
         ELSE Append(height_before_push,
                     IF PushOutcome.res = "Ok" THEN Len(instruction_stack) ELSE -1)
    /\ UNCHANGED <<account_keys, borrow_flag, handles, holders, touched_flags,
                   resize_delta, instruction_stack_capacity, instruction_trace_capacity,
                   top_level_instruction_index, remove_accounts_executable_flag_checks,
                   pops_seen, envVars>>

\* -------------------------------------------------------------------- pop

ProgramAccountsFoundFrom(frame, k) ==
    IF \A j \in (k + 1)..Len(frame.program_accounts) : InRange(frame.program_accounts[j])
    THEN "Ok"
    ELSE "NotEnoughAccountKeys"

\* pop: the dummy try_borrow_mut of each program account of the frame, from
\* program account k on
RECURSIVE ProgramAccountsReleasedFrom(_, _)
ProgramAccountsReleasedFrom(frame, k) ==
    IF k >= Len(frame.program_accounts)
    THEN "Ok"
    ELSE IF ~InRange(frame.program_accounts[k + 1])
    THEN "NotEnoughAccountKeys"
    ELSE IF ~CanBorrowMut(frame.program_accounts[k + 1])
    THEN "AccountBorrowOutstanding"
    ELSE ProgramAccountsReleasedFrom(frame, k + 1)

InstructionNeverUnbalanced(recorded, current) == FALSE

\* pop: instruction_context.instruction_accounts_lamport_sum != sum
InstructionUnbalanced(recorded, current) == recorded # current

\* pop: detected_an_unbalanced_instruction, a Result<bool, _>: [res, unbalanced]
DetectedAnUnbalancedInstruction ==
    LET frame == CurrentInstructionContext
        released == ProgramAccountsReleasedFrom(frame, 0)
        sum == InstructionAccountsLamportSum(frame)
    IN IF released # "Ok" THEN [res |-> released, unbalanced |-> FALSE]
       ELSE IF sum.res # "Ok" THEN [res |-> sum.res, unbalanced |-> FALSE]
       ELSE [res |-> "Ok",
             unbalanced |-> InstructionUnbalanced(frame.instruction_accounts_lamport_sum,
                                                  sum.sum)]

PopStackUnlessError(stack, detected) ==
    IF detected.res # "Ok" \/ detected.unbalanced THEN stack ELSE Front(stack)

\* pop: self.instruction_stack.pop(), whatever was detected
PopStack(stack, detected) == Front(stack)

IncrementedTopLevelInstructionIndex(stack, index) == index + 1

\* pop: the top-level index after the stack was popped (the saturating add
\* of a usize never saturates within a trace)
NextTopLevelInstructionIndex(stack, index) ==
    IF stack = <<>> THEN index + 1 ELSE index

\* pop: the value returned once the stack has been popped
PopResult(detected) ==
    IF detected.res # "Ok" THEN detected.res
    ELSE IF detected.unbalanced THEN "UnbalancedInstruction"
    ELSE "Ok"

\* TransactionContext::pop: what it returns and the stack and top-level
\* index it leaves.
PopOutcome ==
    IF instruction_stack = <<>>
    THEN [res |-> "CallDepth", stack |-> instruction_stack,
          top_level_instruction_index |-> top_level_instruction_index]
    ELSE [res |-> PopResult(DetectedAnUnbalancedInstruction),
          stack |-> PopStack(instruction_stack, DetectedAnUnbalancedInstruction),
          top_level_instruction_index |->
              NextTopLevelInstructionIndex(
                  PopStack(instruction_stack, DetectedAnUnbalancedInstruction),
                  top_level_instruction_index)]

PopHoldingProgramAccounts ==
    /\ NoLiveHandle
    /\ instruction_stack' = PopOutcome.stack
    /\ top_level_instruction_index' = PopOutcome.top_level_instruction_index
    /\ last' = [op |-> "pop", res |-> PopOutcome.res]
    /\ pops_seen' =
         pops_seen + (IF Len(PopOutcome.stack) < Len(instruction_stack) THEN 1 ELSE 0)
    /\ borrow_flag' =
         [i \in DOMAIN borrow_flag |->
            IF /\ instruction_stack # <<>>
               /\ borrow_flag[i] = 0
               /\ \E k \in 1..Len(CurrentInstructionContext.program_accounts) :
                     CurrentInstructionContext.program_accounts[k] = i - 1
            THEN -1
            ELSE borrow_flag[i]]
    /\ UNCHANGED <<account_keys, accounts, handles, holders, touched_flags, resize_delta,
                   instruction_stack_capacity, instruction_trace_capacity,
                   instruction_trace, remove_accounts_executable_flag_checks,
                   call_depth_failures, height_before_push, envVars>>

Pop ==
    /\ NoLiveHandle
    /\ instruction_stack' = PopOutcome.stack
    /\ top_level_instruction_index' = PopOutcome.top_level_instruction_index
    /\ last' = [op |-> "pop", res |-> PopOutcome.res]
    /\ pops_seen' =
         pops_seen + (IF Len(PopOutcome.stack) < Len(instruction_stack) THEN 1 ELSE 0)
    /\ UNCHANGED <<poolVars, instruction_stack_capacity, instruction_trace_capacity,
                   instruction_trace, remove_accounts_executable_flag_checks,
                   call_depth_failures, height_before_push, envVars>>

\* ------------------------------------------------------ borrows of a slot

\* TransactionAccounts::try_borrow: what it returns
TryBorrowResult(index) ==
    IF ~InRange(index) THEN "MissingAccount"
    ELSE IF ~CanBorrow(index) THEN "AccountBorrowFailed"
    ELSE "Ok"

\* TransactionAccounts::try_borrow through a clone of the Rc. What the call
\* returned goes into `last` where the action is used, as for the other
\* borrows below.
TryBorrow(index) ==
    /\ IF TryBorrowResult(index) = "Ok"
       THEN /\ borrow_flag' = [borrow_flag EXCEPT ![index + 1] = @ + 1]
            /\ holders' = [holders EXCEPT ![index + 1].readers = @ + 1]
       ELSE UNCHANGED <<borrow_flag, holders>>
    /\ UNCHANGED <<account_keys, accounts, handles, touched_flags, resize_delta,
                   frameVars, remove_accounts_executable_flag_checks, historyVars, envVars>>

\* drop of a Ref
DropRef(index) ==
    /\ InRange(index)
    /\ borrow_flag[index + 1] > 0
    /\ borrow_flag' = [borrow_flag EXCEPT ![index + 1] = @ - 1]
    /\ holders' = [holders EXCEPT ![index + 1].readers = @ - 1]
    /\ last' = Other
    /\ UNCHANGED <<account_keys, accounts, handles, touched_flags, resize_delta,
                   frameVars, remove_accounts_executable_flag_checks, historyVars, envVars>>

\* InstructionContext::try_borrow_account: what it returns
TryBorrowAccountResult(index_in_transaction) ==
    IF ~InRange(index_in_transaction) THEN "MissingAccount"
    ELSE IF ~CanBorrowMut(index_in_transaction) THEN "AccountBorrowFailed"
    ELSE "Ok"

\* InstructionContext::try_borrow_account of frame `frame` of the trace
TryBorrowAccount(frame, index_in_transaction, index_in_instruction) ==
    /\ IF TryBorrowAccountResult(index_in_transaction) = "Ok"
       THEN /\ borrow_flag' = [borrow_flag EXCEPT ![index_in_transaction + 1] = -1]
            /\ holders' = [holders EXCEPT ![index_in_transaction + 1].writers = @ + 1]
            /\ handles' = [handles EXCEPT ![index_in_transaction + 1] =
                              [st |-> "live", frame |-> frame,
                               index_in_instruction_accounts |-> index_in_instruction]]
       ELSE UNCHANGED <<borrow_flag, holders, handles>>
    /\ UNCHANGED <<account_keys, accounts, touched_flags, resize_delta,
                   frameVars, remove_accounts_executable_flag_checks, historyVars, envVars>>

\* InstructionContext::try_borrow_instruction_account: what it returns
TryBorrowInstructionAccountResult(frame, instruction_account_index) ==
    LET instruction_accounts == instruction_trace[frame + 1].instruction_accounts
    IN IF instruction_account_index >= Len(instruction_accounts)
       THEN "NotEnoughAccountKeys"
       ELSE TryBorrowAccountResult(
                instruction_accounts[instruction_account_index + 1].index_in_transaction)

\* InstructionContext::try_borrow_instruction_account
TryBorrowInstructionAccount(frame, instruction_account_index) ==
    LET instruction_accounts == instruction_trace[frame + 1].instruction_accounts
    IN IF instruction_account_index >= Len(instruction_accounts)
       THEN UNCHANGED <<poolVars, frameVars, remove_accounts_executable_flag_checks,
                           historyVars, envVars>>
       ELSE TryBorrowAccount(frame,
                instruction_accounts[instruction_account_index + 1].index_in_transaction,
                instruction_account_index)

\* InstructionContext::try_borrow_program_account: what it returns
TryBorrowProgramAccountResult(frame, program_account_index) ==
    LET program_accounts == instruction_trace[frame + 1].program_accounts
    IN IF program_account_index >= Len(program_accounts)
       THEN "NotEnoughAccountKeys"
       ELSE TryBorrowAccountResult(program_accounts[program_account_index + 1])

\* InstructionContext::try_borrow_program_account
TryBorrowProgramAccount(frame, program_account_index) ==
    LET program_accounts == instruction_trace[frame + 1].program_accounts
    IN IF program_account_index >= Len(program_accounts)
       THEN UNCHANGED <<poolVars, frameVars, remove_accounts_executable_flag_checks,
                           historyVars, envVars>>
       ELSE TryBorrowAccount(frame,
                             program_accounts[program_account_index + 1], -1)

\* drop of a BorrowedAccount: its RefMut releases the slot
DropBorrowedAccount(index) ==
    /\ InRange(index)
    /\ handles[index + 1].st = "live"
    /\ borrow_flag' = [borrow_flag EXCEPT ![index + 1] = 0]
    /\ holders' = [holders EXCEPT ![index + 1].writers = @ - 1]
    /\ handles' = [handles EXCEPT ![index + 1] = NoHandle]
    /\ last' = Other
    /\ UNCHANGED <<account_keys, accounts, touched_flags, resize_delta,
                   frameVars, remove_accounts_executable_flag_checks, historyVars, envVars>>

\* mem::forget of the BorrowedAccount of an instruction account: the slot
\* stays mutably borrowed
ForgetBorrowedAccount(index) ==
    /\ InRange(index)
    /\ handles[index + 1].st = "live"
    /\ handles[index + 1].index_in_instruction_accounts # -1
    /\ handles' = [handles EXCEPT ![index + 1] = LeakedHandle]
    /\ last' = Other
    /\ UNCHANGED <<account_keys, accounts, borrow_flag, holders, touched_flags,
                   resize_delta, frameVars, remove_accounts_executable_flag_checks,
                   historyVars, envVars>>

\* The callers hold fewer than `bound` Ref and RefMut values, so that one
\* more may be handed out
WithinBorrowBound(res, bound) == res = "Ok" => OutstandingBorrows < bound

\* `last` after an attempt to borrow slot `index` (-1: the attempt named no
\* slot) that returned res
Borrowed(op, index, res) == [op |-> op, res |-> res, index |-> index]

\* --------------------------------------------------------- BorrowedAccount

\* InstructionContext::get_last_program_key: the key, or "" for the Err
GetLastProgramKey(frame) ==
    IF frame.program_accounts = <<>> THEN ""
    ELSE IF ~InRange(Last(frame.program_accounts)) THEN ""
    ELSE account_keys[Last(frame.program_accounts) + 1]

\* BorrowedAccount::is_owned_by_current_program
IsOwnedByCurrentProgram(index) ==
    LET key == GetLastProgramKey(instruction_trace[handles[index + 1].frame + 1])
    IN key # "" /\ key = accounts[index + 1].owner

\* BorrowedAccount::is_signer
IsSigner(index) ==
    LET handle == handles[index + 1]
        instruction_accounts == instruction_trace[handle.frame + 1].instruction_accounts
    IN /\ handle.index_in_instruction_accounts # -1
       /\ handle.index_in_instruction_accounts < Len(instruction_accounts)
       /\ instruction_accounts[handle.index_in_instruction_accounts + 1].is_signer

IsWritableWithoutInstructionAccount(index) ==
    LET handle == handles[index + 1]
        instruction_accounts == instruction_trace[handle.frame + 1].instruction_accounts
    IN \/ handle.index_in_instruction_accounts = -1
       \/ /\ handle.index_in_instruction_accounts < Len(instruction_accounts)
          /\ instruction_accounts[handle.index_in_instruction_accounts + 1].is_writable

\* BorrowedAccount::is_writable
IsWritable(index) ==
    LET handle == handles[index + 1]
        instruction_accounts == instruction_trace[handle.frame + 1].instruction_accounts
    IN /\ handle.index_in_instruction_accounts # -1
       /\ handle.index_in_instruction_accounts < Len(instruction_accounts)
       /\ instruction_accounts[handle.index_in_instruction_accounts + 1].is_writable

\* BorrowedAccount::is_executable_internal
IsExecutableInternal(index) ==
    ~remove_accounts_executable_flag_checks /\ accounts[index + 1].executable

\* `last` after a call on the BorrowedAccount of slot `index`
DataCall(op, index, arg, res) == [op |-> op, res |-> res, index |-> index, arg |-> arg]

SetLamportsResultWritableFirst(index, lamports) ==
    IF ~IsWritable(index) THEN "ReadonlyLamportChange"
    ELSE IF ~IsOwnedByCurrentProgram(index) /\ lamports < accounts[index + 1].lamports
    THEN "ExternalAccountLamportSpend"
    ELSE IF IsExecutableInternal(index) THEN "ExecutableLamportChange"
    ELSE "Ok"

\* BorrowedAccount::set_lamports: the value returned
SetLamportsResult(index, lamports) ==
    IF ~IsOwnedByCurrentProgram(index) /\ lamports < accounts[index + 1].lamports
    THEN "ExternalAccountLamportSpend"
    ELSE IF ~IsWritable(index) THEN "ReadonlyLamportChange"
    ELSE IF IsExecutableInternal(index) THEN "ExecutableLamportChange"
    ELSE "Ok"

\* BorrowedAccount::set_lamports on the handle that holds slot `index`
SetLamports(index, lamports) ==
    /\ InRange(index)
    /\ handles[index + 1].st = "live"
    /\ last' = DataCall("set_lamports", index, lamports, SetLamportsResult(index, lamports))
    /\ IF SetLamportsResult(index, lamports) = "Ok"
          /\ accounts[index + 1].lamports # lamports
       THEN /\ touched_flags' = [touched_flags EXCEPT ![index + 1] = TRUE]
            /\ accounts' = [accounts EXCEPT ![index + 1].lamports = lamports]
       ELSE UNCHANGED <<touched_flags, accounts>>
    /\ UNCHANGED <<account_keys, borrow_flag, handles, holders, resize_delta,
                   frameVars, remove_accounts_executable_flag_checks, historyVars, envVars>>

\* BorrowedAccount::checked_add_lamports (the sum of two balances of the model
\* is far below 2^64, so checked_add returns Some)
CheckedAddLamports(index, lamports) ==
    LET sum == accounts[index + 1].lamports + lamports
    IN /\ InRange(index)
       /\ handles[index + 1].st = "live"
       /\ last' = DataCall("checked_add_lamports", index, lamports,
                           SetLamportsResult(index, sum))
       /\ IF SetLamportsResult(index, sum) = "Ok" /\ lamports # 0
          THEN /\ touched_flags' = [touched_flags EXCEPT ![index + 1] = TRUE]
               /\ accounts' = [accounts EXCEPT ![index + 1].lamports = sum]
          ELSE UNCHANGED <<touched_flags, accounts>>
       /\ UNCHANGED <<account_keys, borrow_flag, handles, holders, resize_delta,
                      frameVars, remove_accounts_executable_flag_checks, historyVars,
                      envVars>>

\* BorrowedAccount::checked_sub_lamports: checked_sub returns None below zero
CheckedSubLamports(index, lamports) ==
    LET difference == accounts[index + 1].lamports - lamports
        res == IF difference < 0 THEN "ArithmeticOverflow"
               ELSE SetLamportsResult(index, difference)
    IN /\ InRange(index)
       /\ handles[index + 1].st = "live"
       /\ last' = DataCall("checked_sub_lamports", index, lamports, res)
       /\ IF res = "Ok" /\ lamports # 0
          THEN /\ touched_flags' = [touched_flags EXCEPT ![index + 1] = TRUE]
               /\ accounts' = [accounts EXCEPT ![index + 1].lamports = difference]
          ELSE UNCHANGED <<touched_flags, accounts>>
       /\ UNCHANGED <<account_keys, borrow_flag, handles, holders, resize_delta,
                      frameVars, remove_accounts_executable_flag_checks, historyVars,
                      envVars>>

\* ------------------------------------------------------------ account data

MAX_PERMITTED_DATA_LENGTH == 10 * 1024 * 1024

MAX_PERMITTED_ACCOUNTS_DATA_ALLOCATIONS_PER_TRANSACTION == MAX_PERMITTED_DATA_LENGTH * 2

Min(a, b) == IF a < b THEN a ELSE b

Max(a, b) == IF a > b THEN a ELSE b

\* Vec::resize(new_len, 0) of the account data
Resize(data, new_len) ==
    [len |-> new_len, nz |-> {p \in data.nz : p[1] < new_len}]

\* Vec::extend_from_slice of the account data
Extend(data, slice) ==
    [len |-> data.len + slice.len,
     nz |-> data.nz \cup {<<p[1] + data.len, p[2]>> : p \in slice.nz}]

\* TransactionAccounts::touch
Touch(flags, index) == [flags EXCEPT ![index + 1] = TRUE]

\* TransactionAccounts::update_accounts_resize_delta: the new resize_delta
\* (an i64; the lengths are far from its limits, the additions never saturate)
UpdateAccountsResizeDeltaForgettingShrinks(delta, old_len, new_len) ==
    delta + Max(new_len - old_len, 0)

UpdateAccountsResizeDelta(delta, old_len, new_len) == delta + (new_len - old_len)

\* TransactionAccounts::can_data_be_resized
PoolCanDataBeResizedPerAccountOnly(old_len, new_len) ==
    IF new_len > MAX_PERMITTED_DATA_LENGTH THEN "InvalidRealloc" ELSE "Ok"

PoolCanDataBeResizedIgnoringEarlierGrowth(old_len, new_len) ==
    IF new_len > MAX_PERMITTED_DATA_LENGTH THEN "InvalidRealloc"
    ELSE IF new_len - old_len > MAX_PERMITTED_ACCOUNTS_DATA_ALLOCATIONS_PER_TRANSACTION
    THEN "MaxAccountsDataAllocationsExceeded"
    ELSE "Ok"

PoolCanDataBeResized(old_len, new_len) ==
    IF new_len > MAX_PERMITTED_DATA_LENGTH THEN "InvalidRealloc"
    ELSE IF resize_delta + (new_len - old_len)
               > MAX_PERMITTED_ACCOUNTS_DATA_ALLOCATIONS_PER_TRANSACTION
    THEN "MaxAccountsDataAllocationsExceeded"
    ELSE "Ok"

CanDataBeChangedOwnerFirst(index) ==
    IF IsExecutableInternal(index) THEN "ExecutableDataModified"
    ELSE IF ~IsOwnedByCurrentProgram(index) THEN "ExternalAccountDataModified"
    ELSE IF ~IsWritable(index) THEN "ReadonlyDataModified"
    ELSE "Ok"

CanDataBeChangedWhenWritable(index) ==
    IF IsExecutableInternal(index) THEN "ExecutableDataModified"
    ELSE IF ~IsWritable(index) THEN "ReadonlyDataModified"
    ELSE "Ok"

\* BorrowedAccount::can_data_be_changed of the handle that holds slot `index`
CanDataBeChanged(index) ==
    IF IsExecutableInternal(index) THEN "ExecutableDataModified"
    ELSE IF ~IsWritable(index) THEN "ReadonlyDataModified"
    ELSE IF ~IsOwnedByCurrentProgram(index) THEN "ExternalAccountDataModified"
    ELSE "Ok"

\* BorrowedAccount::can_data_be_resized
CanDataBeResizedByAnyProgram(index, new_len) ==
    LET old_len == accounts[index + 1].data.len
    IN IF PoolCanDataBeResized(old_len, new_len) # "Ok"
       THEN PoolCanDataBeResized(old_len, new_len)
       ELSE CanDataBeChanged(index)

CanDataBeResized(index, new_len) ==
    LET old_len == accounts[index + 1].data.len
    IN IF new_len # old_len /\ ~IsOwnedByCurrentProgram(index)
       THEN "AccountDataSizeChanged"
       ELSE IF PoolCanDataBeResized(old_len, new_len) # "Ok"
       THEN PoolCanDataBeResized(old_len, new_len)
       ELSE CanDataBeChanged(index)

\* What the data operations leave alone
dataUnchanged == <<account_keys, borrow_flag, handles, holders, frameVars,
                   remove_accounts_executable_flag_checks, historyVars, envVars>>

\* BorrowedAccount::get_data_mut on the handle that holds slot `index`; the
\* caller stores `byte` at position `pos` of the slice it is given
GetDataMut(index, pos, byte) ==
    /\ InRange(index)
    /\ handles[index + 1].st = "live"
    /\ last' = DataCall("get_data_mut", index, pos, CanDataBeChanged(index))
    /\ IF CanDataBeChanged(index) = "Ok"
       THEN /\ touched_flags' = Touch(touched_flags, index)
            /\ accounts' = [accounts EXCEPT ![index + 1].data =
                               IF pos < @.len THEN SetByte(@, pos, byte) ELSE @]
       ELSE UNCHANGED <<touched_flags, accounts>>
    /\ UNCHANGED <<resize_delta, dataUnchanged>>

\* BorrowedAccount::set_data_from_slice
SetDataFromSlice(index, data) ==
    /\ InRange(index)
    /\ handles[index + 1].st = "live"
    /\ last' = DataCall("set_data_from_slice", index, data.len,
                        CanDataBeResized(index, data.len))
    /\ IF CanDataBeResized(index, data.len) = "Ok"
       THEN /\ touched_flags' = Touch(touched_flags, index)
            /\ resize_delta' = UpdateAccountsResizeDelta(
                                   resize_delta, accounts[index + 1].data.len, data.len)
            /\ accounts' = [accounts EXCEPT ![index + 1].data = data]
       ELSE UNCHANGED <<touched_flags, resize_delta, accounts>>
    /\ UNCHANGED dataUnchanged

SetDataLengthTouchingFirst(index, new_length) ==
    /\ InRange(index)
    /\ handles[index + 1].st = "live"
    /\ last' = DataCall("set_data_length", index, new_length,
                        CanDataBeResized(index, new_length))
    /\ touched_flags' = Touch(touched_flags, index)
    /\ IF CanDataBeResized(index, new_length) = "Ok"
       THEN /\ resize_delta' = UpdateAccountsResizeDelta(
                                   resize_delta, accounts[index + 1].data.len, new_length)
            /\ accounts' = [accounts EXCEPT ![index + 1].data = Resize(@, new_length)]
       ELSE UNCHANGED <<resize_delta, accounts>>
    /\ UNCHANGED dataUnchanged

\* BorrowedAccount::set_data_length: the length does not change
SetDataLengthNeverReturnsEarly(index, new_length) == FALSE

SetDataLengthReturnsEarly(index, new_length) ==
    accounts[index + 1].data.len = new_length

\* BorrowedAccount::set_data_length
SetDataLength(index, new_length) ==
    /\ InRange(index)
    /\ handles[index + 1].st = "live"
    /\ last' = DataCall("set_data_length", index, new_length,
                        CanDataBeResized(index, new_length))
    /\ IF /\ CanDataBeResized(index, new_length) = "Ok"
          /\ ~SetDataLengthReturnsEarly(index, new_length)
       THEN /\ touched_flags' = Touch(touched_flags, index)
            /\ resize_delta' = UpdateAccountsResizeDelta(
                                   resize_delta, accounts[index + 1].data.len, new_length)
            /\ accounts' = [accounts EXCEPT ![index + 1].data = Resize(@, new_length)]
       ELSE UNCHANGED <<touched_flags, resize_delta, accounts>>
    /\ UNCHANGED dataUnchanged

\* BorrowedAccount::extend_from_slice
ExtendFromSlice(index, data) ==
    LET new_len == accounts[index + 1].data.len + data.len
    IN /\ InRange(index)
       /\ handles[index + 1].st = "live"
       /\ last' = DataCall("extend_from_slice", index, data.len,
                           CanDataBeResized(index, new_len))
       /\ IF CanDataBeResized(index, new_len) = "Ok" /\ data.len # 0
          THEN /\ touched_flags' = Touch(touched_flags, index)
               /\ resize_delta' = UpdateAccountsResizeDelta(
                                      resize_delta, accounts[index + 1].data.len, new_len)
               /\ accounts' = [accounts EXCEPT ![index + 1].data = Extend(@, data)]
          ELSE UNCHANGED <<touched_flags, resize_delta, accounts>>
       /\ UNCHANGED dataUnchanged

\* ------------------------------------- owner, executable flag, feature flag

\* is_zeroed
IsZeroed(data) == data.nz = {}

\* Rent::is_exempt, the rent being the least balance that is exempt
RentIsExempt(lamports, data_len) == lamports >= rent

\* BorrowedAccount::set_owner: the value returned
SetOwnerResultUnlessUnchanged(index, pubkey) ==
    IF accounts[index + 1].owner = pubkey THEN "Ok"
    ELSE IF ~IsOwnedByCurrentProgram(index) THEN "ModifiedProgramId"
    ELSE IF ~IsWritable(index) THEN "ModifiedProgramId"
    ELSE IF IsExecutableInternal(index) THEN "ModifiedProgramId"
    ELSE IF ~IsZeroed(accounts[index + 1].data) THEN "ModifiedProgramId"
    ELSE "Ok"

SetOwnerResult(index, pubkey) ==
    IF ~IsOwnedByCurrentProgram(index) THEN "ModifiedProgramId"
    ELSE IF ~IsWritable(index) THEN "ModifiedProgramId"
    ELSE IF IsExecutableInternal(index) THEN "ModifiedProgramId"
    ELSE IF ~IsZeroed(accounts[index + 1].data) THEN "ModifiedProgramId"
    ELSE "Ok"

\* BorrowedAccount::set_owner on the handle that holds slot `index`
SetOwner(index, pubkey) ==
    /\ InRange(index)
    /\ handles[index + 1].st = "live"
    /\ last' = DataCall("set_owner", index, pubkey, SetOwnerResult(index, pubkey))
    /\ IF SetOwnerResult(index, pubkey) = "Ok" /\ accounts[index + 1].owner # pubkey
       THEN /\ touched_flags' = Touch(touched_flags, index)
            /\ accounts' = [accounts EXCEPT ![index + 1].owner = pubkey]
       ELSE UNCHANGED <<touched_flags, accounts>>
    /\ UNCHANGED <<resize_delta, dataUnchanged>>

\* BorrowedAccount::set_executable: the value returned
SetExecutableResultWhateverTheFeature(index, is_executable) ==
    IF ~RentIsExempt(accounts[index + 1].lamports, accounts[index + 1].data.len)
    THEN "ExecutableAccountNotRentExempt"
    ELSE IF ~IsOwnedByCurrentProgram(index) THEN "ExecutableModified"
    ELSE IF ~IsWritable(index) THEN "ExecutableModified"
    ELSE IF accounts[index + 1].executable /\ ~is_executable THEN "ExecutableModified"
    ELSE "Ok"

SetExecutableResult(index, is_executable) ==
    IF ~RentIsExempt(accounts[index + 1].lamports, accounts[index + 1].data.len)
    THEN "ExecutableAccountNotRentExempt"
    ELSE IF ~IsOwnedByCurrentProgram(index) THEN "ExecutableModified"
    ELSE IF ~IsWritable(index) THEN "ExecutableModified"
    ELSE IF IsExecutableInternal(index) /\ ~is_executable THEN "ExecutableModified"
    ELSE "Ok"

\* BorrowedAccount::set_executable on the handle that holds slot `index`
SetExecutable(index, is_executable) ==
    /\ InRange(index)
    /\ handles[index + 1].st = "live"
    /\ last' = DataCall("set_executable", index, is_executable,
                        SetExecutableResult(index, is_executable))
    /\ IF /\ SetExecutableResult(index, is_executable) = "Ok"
          /\ accounts[index + 1].executable # is_executable
       THEN /\ touched_flags' = Touch(touched_flags, index)
            /\ accounts' = [accounts EXCEPT ![index + 1].executable = is_executable]
       ELSE UNCHANGED <<touched_flags, accounts>>
    /\ UNCHANGED <<resize_delta, dataUnchanged>>

\* TransactionContext::set_remove_accounts_executable_flag_checks
SetRemoveAccountsExecutableFlagChecks(enabled) ==
    /\ NoLiveHandle
    /\ remove_accounts_executable_flag_checks' = enabled
    /\ last' = Other
    /\ UNCHANGED <<poolVars, frameVars, historyVars, envVars>>

\* ------------------------------------------- the access violation handler

\* The VM maps the data of account `payload` (or memory that is no writable
\* account, payload -1) read-only at address 0, with the length the data has
\* at that moment
MapRegion(payload) ==
    /\ region' = [vm_addr |-> 0,
                  len |-> IF InRange(payload) THEN accounts[payload + 1].data.len ELSE 0,
                  host_addr |-> "shared",
                  writable |-> FALSE,
                  access_violation_handler_payload |-> payload]
    /\ last' = Other
    /\ UNCHANGED <<poolVars, frameVars, remove_accounts_executable_flag_checks,
                   historyVars, debug_assertions, initial_data_len, initial_accounts, rent>>

\* The length the handler grows the account to
GrownLengthIgnoringBudget(reserved, old_len, remaining_allowed_growth) ==
    Min(reserved, MAX_PERMITTED_DATA_LENGTH)

GrownLength(reserved, old_len, remaining_allowed_growth) ==
    Min(Min(reserved, MAX_PERMITTED_DATA_LENGTH), old_len + remaining_allowed_growth)

\* debug_assert!: it panics in a build with debug assertions when its
\* condition is false, and is nothing in the other builds
DebugAssertNeverPanics(condition) == FALSE

DebugAssertPanics(condition) == debug_assertions /\ ~condition

\* What one invocation of the closure comes to: how it ended, the gate's
\* verdict on its resize ("none" when it took no grow path), and the values
\* it leaves
HandlerOutcome(address_space_reserved_for_account, access_type, vm_addr, len) ==
    LET index_in_transaction == region.access_violation_handler_payload
        requested_length == Max(vm_addr + len - region.vm_addr, 0)
        unchanged == [res |-> "returned", gate |-> "none", accounts |-> accounts,
                      touched_flags |-> touched_flags, resize_delta |-> resize_delta,
                      region |-> region]
    IN IF access_type = "Load" THEN unchanged
       ELSE IF index_in_transaction = -1 THEN unchanged
       ELSE IF requested_length > address_space_reserved_for_account THEN unchanged
       ELSE IF ~InRange(index_in_transaction) \/ borrow_flag[index_in_transaction + 1] # 0
       THEN [unchanged EXCEPT !.res = IF DebugAssertPanics(FALSE)
                                      THEN "panicked" ELSE "returned"]
       ELSE
         LET touched == Touch(touched_flags, index_in_transaction)
             remaining_allowed_growth ==
                 Max(MAX_PERMITTED_ACCOUNTS_DATA_ALLOCATIONS_PER_TRANSACTION - resize_delta, 0)
             old_len == accounts[index_in_transaction + 1].data.len
             new_len == GrownLength(address_space_reserved_for_account, old_len,
                                    remaining_allowed_growth)
             gate == PoolCanDataBeResized(old_len, new_len)
             host_addr == <<"data", index_in_transaction>>
         IN IF requested_length > region.len
            THEN IF DebugAssertPanics(gate = "Ok")
                 THEN [unchanged EXCEPT !.res = "panicked", !.gate = gate,
                                        !.touched_flags = touched]
                 ELSE [res |-> "returned", gate |-> gate,
                       accounts |-> [accounts EXCEPT ![index_in_transaction + 1].data =
                                        Resize(@, new_len)],
                       touched_flags |-> touched,
                       resize_delta |-> UpdateAccountsResizeDelta(
                                            resize_delta, old_len, new_len),
                       region |-> [region EXCEPT !.len = new_len,
                                                 !.host_addr = host_addr,
                                                 !.writable = TRUE]]
            ELSE [unchanged EXCEPT !.touched_flags = touched,
                                   !.region = [region EXCEPT !.host_addr = host_addr,
                                                             !.writable = TRUE]]

\* The closure of TransactionContext::access_violation_handler, called by the
\* VM on the mapped region
AccessViolationHandler(address_space_reserved_for_account, access_type, vm_addr, len) ==
    LET outcome == HandlerOutcome(address_space_reserved_for_account, access_type,
                                  vm_addr, len)
    IN /\ accounts' = outcome.accounts
       /\ touched_flags' = outcome.touched_flags
       /\ resize_delta' = outcome.resize_delta
       /\ region' = outcome.region
       /\ last' = [op |-> "access_violation_handler", res |-> outcome.res,
                   gate |-> outcome.gate, access_type |-> access_type,
                   within_reserved |->
                       Max(vm_addr + len - region.vm_addr, 0)
                           <= address_space_reserved_for_account]
       /\ UNCHANGED <<account_keys, borrow_flag, handles, holders, frameVars,
                      remove_accounts_executable_flag_checks, historyVars,
                      debug_assertions, initial_data_len, initial_accounts, rent>>

\* ------------------------------------------------------------------- Next

Next ==
    \/ \E input \in ConfigureInputs : Configure(input)
    \/ Push
    \/ Pop
    \/ \E index \in {0, 2, 3} :
          /\ WithinBorrowBound(TryBorrowResult(index), MaxOutstandingBorrows)
          /\ TryBorrow(index)
          /\ last' = Other
    \/ \E index \in 0..NumberOfAccounts : DropRef(index)
    \/ \E k \in 0..2 :
          /\ instruction_stack # <<>>
          /\ WithinBorrowBound(
                 TryBorrowInstructionAccountResult(Last(instruction_stack), k),
                 MaxOutstandingBorrows)
          /\ TryBorrowInstructionAccount(Last(instruction_stack), k)
          /\ last' = Other
    \/ \E k \in 0..1 :
          /\ instruction_stack # <<>>
          /\ WithinBorrowBound(
                 TryBorrowProgramAccountResult(Last(instruction_stack), k),
                 MaxOutstandingBorrows)
          /\ TryBorrowProgramAccount(Last(instruction_stack), k)
          /\ last' = Other
    \/ \E index \in 0..NumberOfAccounts : DropBorrowedAccount(index)
    \/ \E index \in 0..NumberOfAccounts : ForgetBorrowedAccount(index)
    \/ \E index \in 0..NumberOfAccounts, lamports \in 0..MaxLamports :
          SetLamports(index, lamports)

Spec == Init /\ [][Next]_vars

\* ============================================================== properties

\* The vocabulary of the properties below.

\* The errors of instruction_accounts_lamport_sum
LamportSumErrors == {"NotEnoughAccountKeys", "AccountBorrowOutstanding"}

\* The errors push returns before it writes anything
EarlyPushErrors == LamportSumErrors \cup {"UnbalancedInstruction"}

\* The errors of push's instructions sysvar step
SysvarStepErrors == {"AccountBorrowFailed", "InvalidAccountOwner", "AccountDataTooSmall"}

\* Every instruction account of the frame carries the position of the first
\* instruction account with its index_in_transaction
DuplicateMarkersCorrect(frame) ==
    \A p \in 1..Len(frame.instruction_accounts) :
        \E q \in 1..p :
            /\ frame.instruction_accounts[p].index_in_callee = q - 1
            /\ frame.instruction_accounts[q].index_in_transaction =
                   frame.instruction_accounts[p].index_in_transaction
            /\ \A r \in 1..(q - 1) :
                   frame.instruction_accounts[r].index_in_transaction #
                       frame.instruction_accounts[p].index_in_transaction

DistinctInstructionAccounts(frame) ==
    { frame.instruction_accounts[p].index_in_transaction :
          p \in 1..Len(frame.instruction_accounts) }

\* The lamports of a set of slots, each counted once
RECURSIVE LamportsOf(_)
LamportsOf(slots) ==
    IF slots = {} THEN 0
    ELSE LET index == CHOOSE index \in slots : TRUE
         IN (IF InRange(index) THEN accounts[index + 1].lamports ELSE 0)
                + LamportsOf(slots \ {index})

ProgramAccountsNotBorrowed(frame) ==
    \A k \in 1..Len(frame.program_accounts) :
        InRange(frame.program_accounts[k]) => borrow_flag[frame.program_accounts[k] + 1] = 0

ProgramAccountsExist(frame) ==
    \A k \in 1..Len(frame.program_accounts) : InRange(frame.program_accounts[k])

InstructionAccountsReadable(frame) ==
    \A index \in DistinctInstructionAccounts(frame) :
        InRange(index) /\ borrow_flag[index + 1] >= 0

BalancedResult(frame) ==
    IF LamportsOf(DistinctInstructionAccounts(frame)) = frame.instruction_accounts_lamport_sum
    THEN "Ok"
    ELSE "UnbalancedInstruction"

\* ---------------------------------------------------------------------- C1

\* C1 as stated: with a frame on top of the stack whose duplicate markers are
\* correct and whose program accounts are not borrowed, pop returns Ok when
\* the lamports of the distinct instruction accounts add up to the sum
\* recorded at push, and UnbalancedInstruction otherwise.
C1_PopOkIffBalanced_AsStated ==
    ( /\ NoLiveHandle
      /\ instruction_stack # <<>>
      /\ DuplicateMarkersCorrect(CurrentInstructionContext)
      /\ ProgramAccountsNotBorrowed(CurrentInstructionContext) )
    => PopOutcome.res = BalancedResult(CurrentInstructionContext)

\* C1 (amended): with a frame on top of the stack whose duplicate markers are
\* correct, whose program accounts all exist in the transaction and are not
\* borrowed, and whose instruction accounts all exist and are not mutably
\* borrowed, pop returns Ok if and only if the lamports of the distinct
\* instruction accounts add up to the sum recorded at push, and
\* UnbalancedInstruction otherwise.
C1_PopOkIffBalanced ==
    ( /\ NoLiveHandle
      /\ instruction_stack # <<>>
      /\ DuplicateMarkersCorrect(CurrentInstructionContext)
      /\ ProgramAccountsExist(CurrentInstructionContext)
      /\ ProgramAccountsNotBorrowed(CurrentInstructionContext)
      /\ InstructionAccountsReadable(CurrentInstructionContext) )
    => PopOutcome.res = BalancedResult(CurrentInstructionContext)

\* A pop has just found the frame with a duplicated instruction account
\* unbalanced
C1_Witness ==
    /\ last = [op |-> "pop", res |-> "UnbalancedInstruction"]
    /\ \E t \in 1..Len(instruction_trace) :
          /\ Len(instruction_trace[t].instruction_accounts) = 3
          /\ instruction_trace[t].instruction_accounts_lamport_sum #
                 LamportsOf(DistinctInstructionAccounts(instruction_trace[t]))

\* ---------------------------------------------------------------------- C2

\* C2: a pop on a non-empty stack removes exactly the top entry of the stack
\* whatever it returns; a pop on an empty stack returns CallDepth and changes
\* nothing.
C2_PopAlwaysPops ==
    [][ last'.op = "pop" =>
          IF instruction_stack = <<>>
          THEN /\ last'.res = "CallDepth"
               /\ UNCHANGED <<poolVars, frameVars, remove_accounts_executable_flag_checks>>
          ELSE /\ last'.res # "CallDepth"
               /\ instruction_stack' = Front(instruction_stack)
      ]_vars

\* A pop has just returned an error and the frame is gone from the stack
C2_Witness ==
    /\ last.op = "pop"
    /\ last.res \in {"NotEnoughAccountKeys", "AccountBorrowOutstanding",
                     "UnbalancedInstruction"}
    /\ instruction_stack = <<>>
    /\ pops_seen > 0

\* ---------------------------------------------------------------------- C3

\* C3 as stated: a push that returns an error leaves the stack, the trace
\* (its length and every frame, the tail included) and the accounts as they
\* were.
C3_FailedPushChangesNothing_AsStated ==
    [][ (last'.op = "push" /\ last'.res # "Ok") =>
            UNCHANGED <<instruction_stack, instruction_trace, accounts>>
      ]_vars

\* C3 (amended): a push that returns an error leaves the accounts, every
\* frame before the tail and the tail's program accounts, instruction
\* accounts and data as they were. On an error of the lamport sums or
\* UnbalancedInstruction the stack and the trace are unchanged; on
\* MaxInstructionTraceLengthExceeded the stack and the trace length are
\* unchanged but the tail's nesting_level and lamport sum are overwritten; on
\* CallDepth the stack is unchanged and the trace has gained a default tail;
\* on an error of the instructions sysvar step the frame is on the stack and
\* the trace has gained a default tail.
C3_FailedPushChanges ==
    [][ (last'.op = "push" /\ last'.res # "Ok") =>
          LET tail == Len(instruction_trace)
              written == FrozenTrace(Len(instruction_stack),
                                     LamportsOf(DistinctInstructionAccounts(
                                         instruction_trace[tail])))
          IN /\ accounts' = accounts
             /\ CASE last'.res \in EarlyPushErrors ->
                       UNCHANGED <<instruction_stack, instruction_trace>>
                  [] last'.res = "MaxInstructionTraceLengthExceeded" ->
                       /\ instruction_stack' = instruction_stack
                       /\ instruction_trace' = written
                  [] last'.res = "CallDepth" ->
                       /\ instruction_stack' = instruction_stack
                       /\ instruction_trace' = Append(written, DefaultInstructionContext)
                  [] last'.res \in SysvarStepErrors ->
                       /\ instruction_stack' = Append(instruction_stack, tail - 1)
                       /\ instruction_trace' = Append(written, DefaultInstructionContext)
                  [] OTHER -> FALSE
      ]_vars

\* A push has just failed in the instructions sysvar step and its frame is on
\* the stack
C3_Witness ==
    /\ last.op = "push"
    /\ last.res \in SysvarStepErrors
    /\ instruction_stack # <<>>
    /\ Len(instruction_trace) = 2

\* ---------------------------------------------------------------------- C4

\* C4 as stated: a push attempted when the trace holds trace_capacity frozen
\* frames returns MaxInstructionTraceLengthExceeded and leaves the trace
\* unchanged, the tail frame keeping its nesting_level and lamport sum.
C4_FullTracePush_AsStated ==
    [][ (last'.op = "push" /\ InstructionTraceLength = instruction_trace_capacity) =>
            /\ last'.res = "MaxInstructionTraceLengthExceeded"
            /\ instruction_trace' = instruction_trace
      ]_vars

\* C4 (amended): a push attempted when the trace holds trace_capacity frozen
\* frames never succeeds. It returns the error of the lamport sums or
\* UnbalancedInstruction when one of those earlier checks fails, with the
\* trace unchanged, and MaxInstructionTraceLengthExceeded otherwise, with the
\* trace length, the frozen frames and the tail's program accounts,
\* instruction accounts and data unchanged, but with the tail's nesting_level
\* set to the stack height and its lamport sum set to the sum of its
\* instruction accounts.
C4_FullTracePush ==
    [][ (last'.op = "push" /\ InstructionTraceLength = instruction_trace_capacity) =>
          LET tail == Len(instruction_trace)
          IN \/ /\ last'.res \in EarlyPushErrors
                /\ instruction_trace' = instruction_trace
             \/ /\ last'.res = "MaxInstructionTraceLengthExceeded"
                /\ Len(instruction_trace') = tail
                /\ \A t \in 1..(tail - 1) : instruction_trace'[t] = instruction_trace[t]
                /\ instruction_trace'[tail] =
                      [instruction_trace[tail] EXCEPT
                          !.nesting_level = Len(instruction_stack),
                          !.instruction_accounts_lamport_sum =
                              LamportsOf(DistinctInstructionAccounts(instruction_trace[tail]))]
      ]_vars

\* A push on a full trace has just written a nesting_level and a lamport sum
\* into the tail and returned MaxInstructionTraceLengthExceeded
C4_Witness ==
    /\ last = [op |-> "push", res |-> "MaxInstructionTraceLengthExceeded"]
    /\ InstructionTraceLength = instruction_trace_capacity
    /\ Last(instruction_trace).nesting_level > 0
    /\ Last(instruction_trace).instruction_accounts_lamport_sum > 0

\* ---------------------------------------------------------------------- C5

\* C5 as stated: a push attempted when the stack height equals stack_capacity
\* returns CallDepth and leaves the stack unchanged.
C5_FullStackPush_AsStated ==
    (NoLiveHandle /\ Len(instruction_stack) = instruction_stack_capacity)
    => /\ PushOutcome.res = "CallDepth"
       /\ PushOutcome.stack = instruction_stack

\* C5 (amended): a push attempted when the stack height equals stack_capacity
\* never succeeds and leaves the stack unchanged. It returns CallDepth unless
\* an earlier check fails: the error of the lamport sums, UnbalancedInstruction
\* for an unbalanced caller, or MaxInstructionTraceLengthExceeded when the
\* trace is full as well.
C5_FullStackPush ==
    (NoLiveHandle /\ Len(instruction_stack) = instruction_stack_capacity)
    => /\ PushOutcome.stack = instruction_stack
       /\ PushOutcome.res \in
             EarlyPushErrors \cup {"MaxInstructionTraceLengthExceeded", "CallDepth"}
       /\ PushOutcome.res = "MaxInstructionTraceLengthExceeded"
             => InstructionTraceLength >= instruction_trace_capacity
       /\ PushOutcome.res = "UnbalancedInstruction"
             => /\ instruction_stack # <<>>
                /\ BalancedResult(CurrentInstructionContext) = "UnbalancedInstruction"
       /\ PushOutcome.res \in LamportSumErrors
             => \/ ~InstructionAccountsReadable(Last(instruction_trace))
                \/ /\ instruction_stack # <<>>
                   /\ ~InstructionAccountsReadable(CurrentInstructionContext)

\* A push on a full stack has just returned CallDepth
C5_Witness ==
    /\ last = [op |-> "push", res |-> "CallDepth"]
    /\ Len(instruction_stack) = instruction_stack_capacity

\* ---------------------------------------------------------------------- C6

\* C6: the trace always holds at least one frame, the stack height never
\* exceeds stack_capacity, and the number of frozen frames (trace length
\* minus 1) never exceeds trace_capacity.
C6_Capacities ==
    /\ Len(instruction_trace) >= 1
    /\ Len(instruction_stack) <= instruction_stack_capacity
    /\ Len(instruction_trace) - 1 <= instruction_trace_capacity

\* A push has just been refused with the stack and the trace both full
C6_Witness ==
    /\ last = [op |-> "push", res |-> "MaxInstructionTraceLengthExceeded"]
    /\ Len(instruction_stack) = instruction_stack_capacity
    /\ Len(instruction_trace) - 1 = instruction_trace_capacity

\* ---------------------------------------------------------------------- C7

\* C7 as stated: trace length = stack height + number of pops that removed a
\* frame + 1, after any sequence of push and pop calls, failing ones included.
C7_TraceLength_AsStated ==
    Len(instruction_trace) = Len(instruction_stack) + pops_seen + 1

\* C7 (amended): trace length = stack height + number of pops that removed a
\* frame + number of pushes that returned CallDepth + 1, after any sequence
\* of push and pop calls, failing ones included.
C7_TraceLength ==
    Len(instruction_trace) =
        Len(instruction_stack) + pops_seen + call_depth_failures + 1

\* A push has returned CallDepth and a pop has removed a frame
C7_Witness == call_depth_failures > 0 /\ pops_seen > 0

\* ---------------------------------------------------------------------- C8

\* C8: for every push that returned Ok and its matching pop (the pop of the
\* frame that push put on the stack, whatever was pushed and popped in
\* between and whatever the pop returns), the stack height after the pop
\* equals the stack height before the push.
C8_PopRestoresHeight ==
    ( /\ NoLiveHandle
      /\ instruction_stack # <<>>
      /\ height_before_push[Last(instruction_stack) + 1] # -1 )
    => Len(PopOutcome.stack) = height_before_push[Last(instruction_stack) + 1]

\* A frame pushed at height 1 was popped, and a pop has then just returned
\* an error for the frame below it, pushed at height 0, leaving the stack
\* empty
C8_Witness ==
    /\ last.op = "pop"
    /\ last.res \notin {"Ok", "CallDepth"}
    /\ instruction_stack = <<>>
    /\ Len(height_before_push) = 2
    /\ height_before_push[1] = 0
    /\ height_before_push[2] = 1
    /\ pops_seen = 2

\* ---------------------------------------------------------------------- C9

\* C9: top_level_instruction_index never decreases. It grows by exactly 1 on
\* each pop that leaves the stack empty, whether the pop returns Ok or an
\* error, and is unchanged by push, by a pop that leaves the stack non-empty
\* and by a pop on an empty stack.
C9_TopLevelInstructionIndex ==
    [][ /\ top_level_instruction_index' >= top_level_instruction_index
        /\ top_level_instruction_index' =
              IF /\ last'.op = "pop"
                 /\ instruction_stack # <<>>
                 /\ instruction_stack' = <<>>
              THEN top_level_instruction_index + 1
              ELSE top_level_instruction_index
      ]_vars

\* A nested frame was popped without a change of the index, and a pop that
\* returned an error has then just emptied the stack and moved the index on
C9_Witness ==
    /\ last.op = "pop"
    /\ last.res \notin {"Ok", "CallDepth"}
    /\ instruction_stack = <<>>
    /\ pops_seen = 2
    /\ top_level_instruction_index = 1

\* --------------------------------------------------------------------- C10

\* The slot of the instructions sysvar account, or -1
InstructionsSysvarIndex == FindIndexOfAccount("INSTRUCTIONS")

\* The bytes the sysvar writer needs for the index
IndexFits(account) == account.data.len >= 2

\* push passes the checks that come before the instructions sysvar step
PushReachesSysvarStep == PushOutcome.stack # instruction_stack

\* C10 as stated: when the account set contains the instructions sysvar key,
\* push returns InvalidAccountOwner if the account's owner is not the sysvar
\* id, AccountDataTooSmall if the owner is right but the data is too short
\* for the index, and Ok if owner and length are right; when the key is
\* absent push makes no sysvar check.
C10_SysvarValidation_AsStated ==
    NoLiveHandle =>
        IF InstructionsSysvarIndex # -1
        THEN LET account == accounts[InstructionsSysvarIndex + 1]
             IN PushOutcome.res =
                    IF account.owner # "SYSVAR" THEN "InvalidAccountOwner"
                    ELSE IF ~IndexFits(account) THEN "AccountDataTooSmall"
                    ELSE "Ok"
        ELSE /\ PushOutcome.res \notin SysvarStepErrors
             /\ PushOutcome.accounts = accounts

\* C10 (amended): when the account set contains the instructions sysvar key
\* and the push passes its earlier checks (lamport sums, caller balance,
\* trace and stack limits), so that the frame goes on the stack, push
\* validates that account: it returns AccountBorrowFailed if the account is
\* borrowed, else InvalidAccountOwner if its owner is not the sysvar id, else
\* AccountDataTooSmall if its data is too short for the index, else Ok; only
\* in the last case are the accounts changed. A push that fails an earlier
\* check returns that check's error. When the key is absent push makes no
\* sysvar check: it returns Ok once the earlier checks pass, and never
\* changes the accounts.
C10_SysvarValidation ==
    NoLiveHandle =>
        /\ ~PushReachesSysvarStep =>
              /\ PushOutcome.res \in
                    EarlyPushErrors \cup {"MaxInstructionTraceLengthExceeded", "CallDepth"}
              /\ PushOutcome.accounts = accounts
        /\ PushReachesSysvarStep =>
              IF InstructionsSysvarIndex # -1
              THEN LET account == accounts[InstructionsSysvarIndex + 1]
                   IN /\ PushOutcome.res =
                            IF borrow_flag[InstructionsSysvarIndex + 1] # 0
                            THEN "AccountBorrowFailed"
                            ELSE IF account.owner # "SYSVAR" THEN "InvalidAccountOwner"
                            ELSE IF ~IndexFits(account) THEN "AccountDataTooSmall"
                            ELSE "Ok"
                      /\ PushOutcome.res # "Ok" => PushOutcome.accounts = accounts
              ELSE /\ PushOutcome.res = "Ok"
                   /\ PushOutcome.accounts = accounts

\* A push has just returned AccountDataTooSmall for a sysvar account of the
\* right owner with one byte of data
C10_Witness ==
    /\ last = [op |-> "push", res |-> "AccountDataTooSmall"]
    /\ InstructionsSysvarIndex # -1
    /\ accounts[InstructionsSysvarIndex + 1].owner = "SYSVAR"
    /\ accounts[InstructionsSysvarIndex + 1].data.len = 1

\* --------------------------------------------------------------------- C11

\* The contexts with a valid instructions sysvar account: top-level and
\* nested instructions, and the runtime reading the sysvar account while
\* an instruction is pushed.
InitSysvar == New(SysvarConstructions)

NextSysvar ==
    \/ Push
    \/ Pop
    \/ /\ WithinBorrowBound(TryBorrowResult(FindIndexOfAccount("INSTRUCTIONS")),
                            MaxOutstandingBorrows)
       /\ TryBorrow(FindIndexOfAccount("INSTRUCTIONS"))
       /\ last' = Borrowed("try_borrow", FindIndexOfAccount("INSTRUCTIONS"),
                           TryBorrowResult(FindIndexOfAccount("INSTRUCTIONS")))
    \/ DropRef(FindIndexOfAccount("INSTRUCTIONS"))

SpecSysvar == InitSysvar /\ [][NextSysvar]_vars

\* The index the instructions sysvar data holds: the little-endian u16 in its
\* last two bytes
StoredIndex(data) == ByteAt(data, data.len - 2) + 256 * ByteAt(data, data.len - 1)

SysvarData(pool) == pool[FindIndexOfAccount("INSTRUCTIONS") + 1].data

\* The pushes so far that returned Ok on an empty stack
OkTopLevelPushes ==
    Cardinality({ t \in 1..Len(height_before_push) : height_before_push[t] = 0 })

\* The pushes so far that failed in the instructions sysvar step, their frame
\* left on the stack
SysvarStepFailures ==
    Cardinality({ t \in 1..Len(height_before_push) : height_before_push[t] = -1 })
        - call_depth_failures

\* C11 as stated: after every push that returns Ok the index stored in the
\* sysvar data equals top_level_instruction_index (the pops that emptied the
\* stack so far), and the successive top-level pushes store 0, 1, 2, ... with
\* no gap and no repeat: the k-th stores k - 1.
C11_StoredIndex_AsStated ==
    [][ (last'.op = "push" /\ last'.res = "Ok") =>
          /\ StoredIndex(SysvarData(accounts')) = top_level_instruction_index % 65536
          /\ instruction_stack = <<>> =>
                StoredIndex(SysvarData(accounts')) = OkTopLevelPushes % 65536
      ]_vars

\* C11 (amended): after every push that returns Ok the index stored in the
\* sysvar data equals top_level_instruction_index (the pops that emptied the
\* stack so far). Each successful top-level push stores a larger value than
\* the one stored before it (no repeat); the values are 0, 1, 2, ... with no
\* gap, the k-th storing k - 1, as long as no push has failed in the
\* instructions sysvar step: such a push leaves its frame on the stack without
\* storing, and the pop of that frame moves the index on.
C11_StoredIndex ==
    [][ (last'.op = "push" /\ last'.res = "Ok") =>
          /\ StoredIndex(SysvarData(accounts')) = top_level_instruction_index % 65536
          /\ instruction_stack = <<>> =>
                /\ OkTopLevelPushes > 0 =>
                      StoredIndex(SysvarData(accounts')) > StoredIndex(SysvarData(accounts))
                /\ StoredIndex(SysvarData(accounts')) >= OkTopLevelPushes
                /\ SysvarStepFailures = 0 =>
                      StoredIndex(SysvarData(accounts')) = OkTopLevelPushes % 65536
      ]_vars

\* The third successful top-level push has just stored 2, after a nested
\* push in an earlier instruction
C11_Witness ==
    /\ last = [op |-> "push", res |-> "Ok"]
    /\ Len(instruction_stack) = 1
    /\ StoredIndex(SysvarData(accounts)) = 2
    /\ top_level_instruction_index = 2
    /\ SysvarStepFailures = 0
    /\ \E t \in 1..Len(height_before_push) : height_before_push[t] = 1

\* ------------------------------------------- borrows, frames and the handler

\* One ordinary construction, on either build
InitBorrows ==
    NewOn({[third |-> <<"B", Account(1, "P", FALSE, ZeroData(0))>>, stack |-> 1, trace |-> 1]},
          BOOLEAN)

\* Frames whose program accounts are the program alone, or an index that is
\* no slot of the transaction followed by the program
BorrowConfigureInputs ==
    { [program_accounts |-> <<0>>,
       instruction_accounts |-> <<InstructionAccount(1, 0, TRUE, TRUE),
                                  InstructionAccount(2, 1, FALSE, FALSE)>>,
       instruction_data |-> <<>>],
      [program_accounts |-> <<7, 0>>,
       instruction_accounts |-> <<InstructionAccount(1, 0, FALSE, TRUE)>>,
       instruction_data |-> <<>>] }

\* The slot an instruction account or a program account of a frame names
\* (-1: the frame has no such entry)
InstructionAccountSlot(frame, k) ==
    LET instruction_accounts == instruction_trace[frame + 1].instruction_accounts
    IN IF k >= Len(instruction_accounts) THEN -1
       ELSE instruction_accounts[k + 1].index_in_transaction

ProgramAccountSlot(frame, k) ==
    LET program_accounts == instruction_trace[frame + 1].program_accounts
    IN IF k >= Len(program_accounts) THEN -1 ELSE program_accounts[k + 1]

\* The runtime borrows slots through a clone of the Rc, programs acquire and
\* drop BorrowedAccounts of the current frame, frames are pushed and popped,
\* and the VM calls the handler on the account it has mapped.
NextBorrows ==
    \/ \E input \in BorrowConfigureInputs : Configure(input)
    \/ Push
    \/ Pop
    \/ \E index \in 0..NumberOfAccounts :
          /\ WithinBorrowBound(TryBorrowResult(index), MaxCoexistingBorrows)
          /\ TryBorrow(index)
          /\ last' = Borrowed("try_borrow", index, TryBorrowResult(index))
    \/ \E index \in 0..NumberOfAccounts : DropRef(index)
    \/ \E k \in 0..2 :
          /\ instruction_stack # <<>>
          /\ WithinBorrowBound(
                 TryBorrowInstructionAccountResult(Last(instruction_stack), k),
                 MaxCoexistingBorrows)
          /\ TryBorrowInstructionAccount(Last(instruction_stack), k)
          /\ last' = Borrowed("try_borrow_instruction_account",
                              InstructionAccountSlot(Last(instruction_stack), k),
                              TryBorrowInstructionAccountResult(Last(instruction_stack), k))
    \/ \E k \in 0..2 :
          /\ instruction_stack # <<>>
          /\ WithinBorrowBound(
                 TryBorrowProgramAccountResult(Last(instruction_stack), k),
                 MaxCoexistingBorrows)
          /\ TryBorrowProgramAccount(Last(instruction_stack), k)
          /\ last' = Borrowed("try_borrow_program_account",
                              ProgramAccountSlot(Last(instruction_stack), k),
                              TryBorrowProgramAccountResult(Last(instruction_stack), k))
    \/ \E index \in 0..NumberOfAccounts : DropBorrowedAccount(index)
    \/ \E payload \in {-1, 1} : MapRegion(payload)
    \/ \E access_type \in {"Load", "Store"}, len \in 1..2 :
          AccessViolationHandler(1, access_type, 0, len)

SpecBorrows == InitBorrows /\ [][NextBorrows]_vars

\* The attempts to borrow a slot that report their result
BorrowAttempts ==
    {"try_borrow", "try_borrow_instruction_account", "try_borrow_program_account"}

\* The state of the context, without the histories: what an attempt can change
contextVars == <<account_keys, accounts, borrow_flag, handles, touched_flags,
                 resize_delta, frameVars, remove_accounts_executable_flag_checks, region>>

\* Slot i (1-based) is held: by a RefMut, or by a Ref
HeldExclusively(i) == holders[i].writers > 0

HeldShared(i) == holders[i].readers > 0

FirstObstacleIsBorrow(frame, k) ==
    /\ InRange(frame.program_accounts[k])
    /\ borrow_flag[frame.program_accounts[k] + 1] # 0
    /\ \A j \in 1..(k - 1) : InRange(frame.program_accounts[j])

\* C13 as stated: a pop while some program account of the current frame is
\* borrowed returns AccountBorrowOutstanding.
C13_PopBorrowOutstanding_AsStated ==
    [][ ( /\ last'.op = "pop"
          /\ instruction_stack # <<>>
          /\ ~ProgramAccountsNotBorrowed(CurrentInstructionContext) )
        => last'.res = "AccountBorrowOutstanding" ]_vars

\* C13: a pop while some program account of the current frame is borrowed
\* (shared or exclusive), every program account listed before it being a slot
\* of the transaction, returns AccountBorrowOutstanding; a pop while none of
\* the frame's program accounts and distinct instruction accounts is borrowed
\* does not return AccountBorrowOutstanding.
C13_PopBorrowOutstanding ==
    [][ /\ ( /\ last'.op = "pop"
             /\ instruction_stack # <<>>
             /\ \E k \in 1..Len(CurrentInstructionContext.program_accounts) :
                   FirstObstacleIsBorrow(CurrentInstructionContext, k) )
           => last'.res = "AccountBorrowOutstanding"
        /\ ( /\ last'.op = "pop"
             /\ instruction_stack # <<>>
             /\ ProgramAccountsNotBorrowed(CurrentInstructionContext)
             /\ \A index \in DistinctInstructionAccounts(CurrentInstructionContext) :
                   InRange(index) => borrow_flag[index + 1] = 0 )
           => last'.res # "AccountBorrowOutstanding"
      ]_vars

\* A pop has returned AccountBorrowOutstanding: the program of the frame is
\* still read through a Ref
C13_Witness ==
    /\ last = [op |-> "pop", res |-> "AccountBorrowOutstanding"]
    /\ holders[1].readers > 0
    /\ instruction_trace[1].program_accounts = <<0>>

\* ------------------------------------------------- the data of the accounts

\* A transaction of the program (slot 0), three accounts it owns (A and C
\* empty, B with two bytes) and the instructions sysvar, which it does not own
DataConstructions ==
    { [third |-> <<"B", Account(1, "P", FALSE, ZeroData(2))>>,
       rest |-> << <<"C", Account(1, "P", FALSE, ZeroData(0))>>,
                   InstructionsSysvar("SYSVAR", 2) >>,
       stack |-> 1, trace |-> 1] }

\* A build with debug assertions: the handler's debug_assert! are checked
InitData == NewOn(DataConstructions, {TRUE})

\* The instruction: every account of the transaction but the program, writable
DataConfigureInput ==
    [program_accounts |-> <<0>>,
     instruction_accounts |-> <<InstructionAccount(1, 0, FALSE, TRUE),
                                InstructionAccount(2, 1, FALSE, TRUE),
                                InstructionAccount(3, 2, FALSE, TRUE),
                                InstructionAccount(4, 3, FALSE, TRUE)>>,
     instruction_data |-> <<>>]

\* The lengths set_data_length is called with
DataLengths == {0, MAX_PERMITTED_DATA_LENGTH, MAX_PERMITTED_DATA_LENGTH + 1}

\* The program of the one instruction borrows its accounts one at a time. It
\* sets the length of any of them, and replaces, extends and writes the data
\* of A and of the sysvar; the VM maps A, or memory that is no account, and
\* calls the handler for a store that reaches the end of the space reserved.
NextData ==
    \/ Configure(DataConfigureInput)
    \/ Push
    \/ \E k \in 0..3 :
          /\ instruction_stack # <<>>
          /\ WithinBorrowBound(
                 TryBorrowInstructionAccountResult(Last(instruction_stack), k),
                 MaxOutstandingBorrows)
          /\ TryBorrowInstructionAccount(Last(instruction_stack), k)
          /\ last' = Other
    \/ \E index \in 0..NumberOfAccounts : DropBorrowedAccount(index)
    \/ \E index \in 0..NumberOfAccounts, new_length \in DataLengths :
          SetDataLength(index, new_length)
    \/ \E index \in {1, 4} : SetDataFromSlice(index, ZeroData(1))
    \/ \E index \in {1, 4}, len \in {0, 1} :
          /\ len = 0 \/ accounts[index + 1].data.len < MaxExtendedLength
                     \/ accounts[index + 1].data.len = MAX_PERMITTED_DATA_LENGTH
          /\ ExtendFromSlice(index, ZeroData(len))
    \/ \E index \in {1, 4} : GetDataMut(index, 0, 1)
    \/ \E payload \in {-1, 1} : MapRegion(payload)
    \/ \E access_type \in {"Load", "Store"} :
          AccessViolationHandler(MAX_PERMITTED_DATA_LENGTH, access_type,
                                 0, MAX_PERMITTED_DATA_LENGTH)

SpecData == InitData /\ [][NextData]_vars

\* The growth of the data of the slots from `i` (1-based) on: current length
\* minus length at construction
RECURSIVE GrowthFrom(_)
GrowthFrom(i) ==
    IF i > Len(accounts) THEN 0
    ELSE (accounts[i].data.len - initial_data_len[i]) + GrowthFrom(i + 1)

\* C14: in every reachable state, after any sequence of set_data_length,
\* set_data_from_slice, extend_from_slice, get_data_mut, push (with its write
\* into the instructions sysvar) and handler calls on any accounts,
\* resize_delta is the sum over all slots of the current data length minus
\* the data length at construction, also when accounts have shrunk and the
\* sum is negative.
C14_ResizeDeltaIdentity == resize_delta = GrowthFrom(1)

\* An account has shrunk and another has grown, the sum is negative
C14_Witness ==
    /\ resize_delta < 0
    /\ \E i \in 1..Len(accounts) : accounts[i].data.len > initial_data_len[i]
    /\ \E i \in 1..Len(accounts) : accounts[i].data.len < initial_data_len[i]

\* C15: from accounts whose data is at most MAX_PERMITTED_DATA_LENGTH long, no
\* sequence of BorrowedAccount operations and handler calls reaches a state
\* where resize_delta exceeds
\* MAX_PERMITTED_ACCOUNTS_DATA_ALLOCATIONS_PER_TRANSACTION or where the data of
\* some account is longer than MAX_PERMITTED_DATA_LENGTH.
C15_GrowthCeiling ==
    /\ resize_delta <= MAX_PERMITTED_ACCOUNTS_DATA_ALLOCATIONS_PER_TRANSACTION
    /\ \A i \in 1..Len(accounts) : accounts[i].data.len <= MAX_PERMITTED_DATA_LENGTH

\* The budget of the transaction is used up to the last byte, two accounts
\* being as long as an account may be
C15_Witness ==
    /\ resize_delta = MAX_PERMITTED_ACCOUNTS_DATA_ALLOCATIONS_PER_TRANSACTION
    /\ Cardinality({i \in 1..Len(accounts) :
                       accounts[i].data.len = MAX_PERMITTED_DATA_LENGTH}) = 2

\* The BorrowedAccount of slot `index` is one of an empty, writable account
\* that the current program owns
EmptyWritableOwned(index) ==
    /\ accounts[index + 1].data.len = 0
    /\ IsWritable(index)
    /\ IsOwnedByCurrentProgram(index)

\* C16 as stated: set_data_length(MAX_PERMITTED_DATA_LENGTH + 1) on any
\* BorrowedAccount returns InvalidRealloc and leaves the data length, the
\* touched flag and resize_delta unchanged; set_data_length(
\* MAX_PERMITTED_DATA_LENGTH) on an empty writable account owned by the
\* current program returns Ok.
C16_SetDataLengthLimit_AsStated ==
    [][ /\ ( /\ last'.op = "set_data_length"
             /\ last'.arg = MAX_PERMITTED_DATA_LENGTH + 1 )
           => ( /\ last'.res = "InvalidRealloc"
                /\ UNCHANGED <<accounts, touched_flags, resize_delta>> )
        /\ ( /\ last'.op = "set_data_length"
             /\ last'.arg = MAX_PERMITTED_DATA_LENGTH
             /\ EmptyWritableOwned(last'.index) )
           => last'.res = "Ok"
      ]_vars

\* C16: set_data_length(MAX_PERMITTED_DATA_LENGTH + 1) returns InvalidRealloc
\* on a BorrowedAccount of an account that the current program owns or whose
\* data already has that length, and AccountDataSizeChanged on any other; both
\* leave the data length, the touched flag and resize_delta unchanged.
\* set_data_length(MAX_PERMITTED_DATA_LENGTH) on an empty writable account
\* owned by the current program and not executable returns Ok when
\* resize_delta is at most MAX_PERMITTED_DATA_LENGTH, and
\* MaxAccountsDataAllocationsExceeded when it is more.
C16_SetDataLengthLimit ==
    [][ /\ ( /\ last'.op = "set_data_length"
             /\ last'.arg = MAX_PERMITTED_DATA_LENGTH + 1 )
           => ( /\ last'.res = (IF \/ IsOwnedByCurrentProgram(last'.index)
                                   \/ accounts[last'.index + 1].data.len = last'.arg
                                THEN "InvalidRealloc" ELSE "AccountDataSizeChanged")
                /\ UNCHANGED <<accounts, touched_flags, resize_delta>> )
        /\ ( /\ last'.op = "set_data_length"
             /\ last'.arg = MAX_PERMITTED_DATA_LENGTH
             /\ EmptyWritableOwned(last'.index)
             /\ ~IsExecutableInternal(last'.index) )
           => last'.res = (IF resize_delta <= MAX_PERMITTED_DATA_LENGTH
                           THEN "Ok" ELSE "MaxAccountsDataAllocationsExceeded")
      ]_vars

\* An account was set to the greatest length, and then refused one byte more
C16_Witness ==
    /\ last.op = "set_data_length"
    /\ last.arg = MAX_PERMITTED_DATA_LENGTH + 1
    /\ last.res = "InvalidRealloc"
    /\ accounts[last.index + 1].data.len = MAX_PERMITTED_DATA_LENGTH

\* The operations of a BorrowedAccount that resize the data
ResizeCalls == {"set_data_length", "set_data_from_slice", "extend_from_slice"}

\* The length the data of slot `index` has after the resize that `call`
\* records went through
RequestedLength(call) ==
    IF call.op = "extend_from_slice"
    THEN accounts[call.index + 1].data.len + call.arg
    ELSE call.arg

\* C17: the growth budget is shared by all accounts of the transaction: a
\* resize of a writable account owned by the current program to a length
\* within the per-account limit returns MaxAccountsDataAllocationsExceeded
\* exactly when resize_delta + (new_len - old_len) exceeds
\* MAX_PERMITTED_ACCOUNTS_DATA_ALLOCATIONS_PER_TRANSACTION, resize_delta
\* counting the growth of the other accounts and the bytes that earlier
\* shrinks released.
C17_SharedGrowthBudget ==
    [][ ( /\ last'.op \in ResizeCalls
          /\ IsWritable(last'.index)
          /\ IsOwnedByCurrentProgram(last'.index)
          /\ RequestedLength(last') <= MAX_PERMITTED_DATA_LENGTH )
        => ( last'.res = "MaxAccountsDataAllocationsExceeded"
             <=> resize_delta + (RequestedLength(last')
                                  - accounts[last'.index + 1].data.len)
                   > MAX_PERMITTED_ACCOUNTS_DATA_ALLOCATIONS_PER_TRANSACTION )
      ]_vars

\* An empty account was refused a length within the per-account limit: two
\* others have used the budget, less the two bytes one of them had at first
C17_Witness ==
    /\ last.op = "set_data_length"
    /\ last.arg = MAX_PERMITTED_DATA_LENGTH
    /\ last.res = "MaxAccountsDataAllocationsExceeded"
    /\ accounts[last.index + 1].data.len = 0
    /\ resize_delta = MAX_PERMITTED_ACCOUNTS_DATA_ALLOCATIONS_PER_TRANSACTION - 2

\* The handler is called for a slot of the transaction that is borrowed
HandlerCalledOnBorrowedSlot ==
    /\ last'.op = "access_violation_handler"
    /\ InRange(region.access_violation_handler_payload)
    /\ borrow_flag[region.access_violation_handler_payload + 1] # 0

\* C18 as stated: the handler called for a slot that has an outstanding
\* borrow returns, without an error, and changes nothing.
C18_HandlerOnBorrowedSlot_AsStated ==
    [][ HandlerCalledOnBorrowedSlot
        => ( /\ last'.res = "returned"
             /\ UNCHANGED contextVars ) ]_vars

\* C18: the handler called for a slot that has an outstanding borrow changes
\* nothing: the account data and length, the touched flag, resize_delta and
\* the region's len, host_addr and writable keep their values. In a build
\* without debug assertions it returns, without an error; in a build with
\* debug assertions it panics when the access is a store that ends within the
\* space reserved for the account, and returns otherwise.
C18_HandlerOnBorrowedSlot ==
    [][ HandlerCalledOnBorrowedSlot
        => ( /\ last'.res = (IF /\ debug_assertions
                                /\ last'.access_type # "Load"
                                /\ last'.within_reserved
                             THEN "panicked" ELSE "returned")
             /\ UNCHANGED contextVars ) ]_vars

\* The handler was called for account A while a BorrowedAccount held it, in
\* a build without debug assertions: it returned
C18_Witness ==
    /\ last.op = "access_violation_handler"
    /\ last.res = "returned"
    /\ last.access_type = "Store"
    /\ last.within_reserved
    /\ region.access_violation_handler_payload = 1
    /\ handles[2].st = "live"

\* C19: whenever the handler takes its grow path (a store, a payload, the
\* region shorter than the requested length, which is within the space
\* reserved, the slot not borrowed), the length min(address_space_reserved,
\* MAX_PERMITTED_DATA_LENGTH, old_len + remaining) that it applies passes the
\* pool's gate can_data_be_resized(old_len, new_len) in the state of that
\* moment: the debug assertion of the handler never fails.
C19_HandlerGrowsWithinGate ==
    last.op = "access_violation_handler"
        => /\ last.gate \in {"none", "Ok"}
           /\ last.gate = "Ok" => last.res = "returned"

\* The handler has grown account A by the two bytes that were left of the
\* budget of the transaction
C19_Witness ==
    /\ last.op = "access_violation_handler"
    /\ last.gate = "Ok"
    /\ region.len = accounts[2].data.len
    /\ accounts[2].data.len = 2
    /\ resize_delta = MAX_PERMITTED_ACCOUNTS_DATA_ALLOCATIONS_PER_TRANSACTION

\* C20: set_data_length(n) called twice in a row on the same BorrowedAccount
\* does what one call does: when the first call has succeeded, the second
\* returns Ok and changes neither the data, nor resize_delta, nor the touched
\* flag. More generally set_data_length(n) with n the current length never
\* touches the slot and never changes resize_delta.
C20_SetDataLengthIdempotent ==
    [][ /\ ( /\ last.op = "set_data_length"
             /\ last.res = "Ok"
             /\ last'.op = "set_data_length"
             /\ last'.index = last.index
             /\ last'.arg = last.arg )
           => ( /\ last'.res = "Ok"
                /\ UNCHANGED <<accounts, resize_delta, touched_flags>> )
        /\ ( /\ last'.op = "set_data_length"
             /\ last'.arg = accounts[last'.index + 1].data.len )
           => UNCHANGED <<accounts, resize_delta, touched_flags>>
      ]_vars

\* set_data_length(MAX_PERMITTED_DATA_LENGTH) has returned Ok on account C,
\* which has that length: the state that a second call finds, and leaves
C20_Witness ==
    /\ last = DataCall("set_data_length", 3, MAX_PERMITTED_DATA_LENGTH, "Ok")
    /\ accounts[4].data.len = MAX_PERMITTED_DATA_LENGTH
    /\ resize_delta = MAX_PERMITTED_DATA_LENGTH
    /\ touched_flags[4]

\* --------------------------------------- the rules of the BorrowedAccount

\* A transaction of the program (slot 0), account A that it owns and an
\* account of another owner; a balance of one lamport is rent exempt
AccountConstructions ==
    { [third |-> <<"S", Account(1, "Q", FALSE, ZeroData(0))>>, rent |-> 1,
       stack |-> 1, trace |-> 1] }

InitAccount == NewOn(AccountConstructions, {FALSE})

\* The instruction: A and S writable, and A once more, read-only
AccountConfigureInput ==
    [program_accounts |-> <<0>>,
     instruction_accounts |-> <<InstructionAccount(1, 0, FALSE, TRUE),
                                InstructionAccount(2, 1, FALSE, TRUE),
                                InstructionAccount(1, 0, FALSE, FALSE)>>,
     instruction_data |-> <<>>]

\* The program of the one instruction borrows its accounts, one at a time,
\* and calls the setters and the data operations of the handle; the runtime
\* switches the executable-flag checks on and off.
NextAccount ==
    \/ Configure(AccountConfigureInput)
    \/ Push
    \/ \E enabled \in BOOLEAN : SetRemoveAccountsExecutableFlagChecks(enabled)
    \/ \E k \in 0..2 :
          /\ instruction_stack # <<>>
          /\ WithinBorrowBound(
                 TryBorrowInstructionAccountResult(Last(instruction_stack), k),
                 MaxOutstandingBorrows)
          /\ TryBorrowInstructionAccount(Last(instruction_stack), k)
          /\ last' = Other
    \/ \E index \in 0..NumberOfAccounts : DropBorrowedAccount(index)
    \/ \E index \in 0..NumberOfAccounts, pubkey \in {"P", "Q"} : SetOwner(index, pubkey)
    \/ \E index \in 0..NumberOfAccounts, lamports \in 0..MaxLamports :
          SetLamports(index, lamports)
    \/ \E index \in 0..NumberOfAccounts, is_executable \in BOOLEAN :
          SetExecutable(index, is_executable)
    \/ \E index \in 0..NumberOfAccounts,
          new_length \in {0, 1, MAX_PERMITTED_DATA_LENGTH + 1} :
          SetDataLength(index, new_length)
    \/ \E index \in 0..NumberOfAccounts : SetDataFromSlice(index, ZeroData(1))
    \/ \E index \in 0..NumberOfAccounts, len \in {0, 1} :
          /\ InRange(index)
          /\ len = 0 \/ accounts[index + 1].data.len < MaxExtendedLength
          /\ ExtendFromSlice(index, ZeroData(len))
    \/ \E index \in 0..NumberOfAccounts : GetDataMut(index, 0, 1)
    \/ \E index \in 0..NumberOfAccounts :
          /\ InRange(index)
          /\ accounts[index + 1].lamports < MaxLamports
          /\ CheckedAddLamports(index, 1)
    \/ \E index \in 0..NumberOfAccounts : CheckedSubLamports(index, 1)

SpecAccount == InitAccount /\ [][NextAccount]_vars

\* The call that `last` records gave the account of its slot the value the
\* account already had
SetterOfCurrentValue(call) ==
    \/ call.op = "set_owner" /\ call.arg = accounts[call.index + 1].owner
    \/ call.op = "set_lamports" /\ call.arg = accounts[call.index + 1].lamports
    \/ call.op = "set_executable" /\ call.arg = accounts[call.index + 1].executable

\* The handle of slot `index` passes the gates of the setter `op`, which are
\* checked before the value is compared
PassesSetterGates(op, index) ==
    CASE op = "set_owner" ->
           /\ IsOwnedByCurrentProgram(index)
           /\ IsWritable(index)
           /\ ~IsExecutableInternal(index)
           /\ IsZeroed(accounts[index + 1].data)
      [] op = "set_lamports" ->
           /\ IsWritable(index)
           /\ ~IsExecutableInternal(index)
      [] op = "set_executable" ->
           /\ RentIsExempt(accounts[index + 1].lamports, accounts[index + 1].data.len)
           /\ IsOwnedByCurrentProgram(index)
           /\ IsWritable(index)

\* C21 as stated: set_owner with the current owner, set_lamports with the
\* current lamports and set_executable with the current flag return Ok on
\* every BorrowedAccount, leave the account unchanged and do not set the
\* touched flag of the slot.
C21_SettersOfCurrentValue_AsStated ==
    [][ SetterOfCurrentValue(last')
        => ( /\ last'.res = "Ok"
             /\ UNCHANGED <<accounts, touched_flags>> ) ]_vars

\* C21: set_owner with the current owner, set_lamports with the current
\* lamports and set_executable with the current flag leave the account
\* unchanged and do not set the touched flag of the slot; they return Ok on a
\* BorrowedAccount that passes the gates of the setter, which are checked
\* first, and the error of the failing gate on any other.
C21_SettersOfCurrentValue ==
    [][ SetterOfCurrentValue(last')
        => ( /\ last'.res = "Ok" <=> PassesSetterGates(last'.op, last'.index)
             /\ UNCHANGED <<accounts, touched_flags>> ) ]_vars

\* set_owner with the owner that A has returned Ok, and A is as it was at
\* construction, not touched
C21_Witness ==
    /\ last = DataCall("set_owner", 1, "P", "Ok")
    /\ accounts[2] = initial_accounts[2]
    /\ ~touched_flags[2]

\* set_executable(false) is called on an account whose executable flag is set
ClearsExecutable(call) ==
    /\ call.op = "set_executable"
    /\ call.arg = FALSE
    /\ accounts[call.index + 1].executable

\* C22 as stated: in every configuration of the context, set_executable(false)
\* on an account whose executable flag is true returns ExecutableModified and
\* leaves the flag true.
C22_ExecutableNeverCleared_AsStated ==
    [][ ClearsExecutable(last')
        => ( /\ last'.res = "ExecutableModified"
             /\ accounts'[last'.index + 1].executable ) ]_vars

\* C22: set_executable(false) on an account whose executable flag is true
\* returns ExecutableAccountNotRentExempt when the account is not rent exempt,
\* else ExecutableModified when the handle is not writable, or the account not
\* owned by the current program, or the executable-flag checks are in force
\* (remove_accounts_executable_flag_checks is false); the flag then stays
\* true. With the checks removed, which is the default, the call returns Ok on
\* a rent exempt, writable account owned by the current program, clears the
\* flag and touches the slot.
C22_ExecutableNeverCleared ==
    [][ ClearsExecutable(last')
        => LET index == last'.index
               exempt == RentIsExempt(accounts[index + 1].lamports,
                                      accounts[index + 1].data.len)
               refused == \/ ~IsOwnedByCurrentProgram(index)
                          \/ ~IsWritable(index)
                          \/ ~remove_accounts_executable_flag_checks
           IN /\ last'.res = (IF ~exempt THEN "ExecutableAccountNotRentExempt"
                              ELSE IF refused THEN "ExecutableModified"
                              ELSE "Ok")
              /\ accounts'[index + 1].executable <=> last'.res # "Ok"
              /\ last'.res = "Ok" => touched_flags'[index + 1]
      ]_vars

\* With the executable-flag checks in force, the program was refused to clear
\* the flag of its executable, rent exempt account A through a writable handle
C22_Witness ==
    /\ last = DataCall("set_executable", 1, FALSE, "ExecutableModified")
    /\ ~remove_accounts_executable_flag_checks
    /\ accounts[2].executable
    /\ accounts[2].owner = "P"
    /\ accounts[2].lamports >= rent
    /\ handles[2].st = "live"
    /\ handles[2].index_in_instruction_accounts = 0

\* The error of the first rule, in the order executable, writable, owner,
\* that the handle of slot `index` fails ("Ok": it passes them all)
FirstChangeError(index) ==
    IF IsExecutableInternal(index) THEN "ExecutableDataModified"
    ELSE IF ~IsWritable(index) THEN "ReadonlyDataModified"
    ELSE IF ~IsOwnedByCurrentProgram(index) THEN "ExternalAccountDataModified"
    ELSE "Ok"

\* C23 as stated: extend_from_slice with an empty slice returns Ok on every
\* BorrowedAccount, read-only or not owned by the current program included,
\* and changes neither data, touched flag nor resize_delta.
C23_ExtendByNothing_AsStated ==
    [][ ( last'.op = "extend_from_slice" /\ last'.arg = 0 )
        => ( /\ last'.res = "Ok"
             /\ UNCHANGED <<accounts, touched_flags, resize_delta>> ) ]_vars

\* C23: extend_from_slice with an empty slice changes neither data, touched
\* flag nor resize_delta on any BorrowedAccount. The gates come before the
\* emptiness check: the call returns Ok where can_data_be_resized passes for
\* the current length, and otherwise its error (InvalidRealloc or
\* MaxAccountsDataAllocationsExceeded from the pool, then
\* ExecutableDataModified, ReadonlyDataModified for a read-only handle,
\* ExternalAccountDataModified for an account the current program does not
\* own).
C23_ExtendByNothing ==
    [][ ( last'.op = "extend_from_slice" /\ last'.arg = 0 )
        => ( /\ last'.res =
                  (IF accounts[last'.index + 1].data.len > MAX_PERMITTED_DATA_LENGTH
                   THEN "InvalidRealloc"
                   ELSE IF resize_delta
                             > MAX_PERMITTED_ACCOUNTS_DATA_ALLOCATIONS_PER_TRANSACTION
                   THEN "MaxAccountsDataAllocationsExceeded"
                   ELSE FirstChangeError(last'.index))
             /\ UNCHANGED <<accounts, touched_flags, resize_delta>> ) ]_vars

\* extend_from_slice with an empty slice was refused on the read-only handle
\* of account A, which the current program owns
C23_Witness ==
    /\ last = DataCall("extend_from_slice", 1, 0, "ReadonlyDataModified")
    /\ handles[2].st = "live"
    /\ handles[2].index_in_instruction_accounts = 2
    /\ accounts[2].owner = "P"

\* C24: set_lamports(v) returns ExternalAccountLamportSpend if v is below the
\* balance and the current program does not own the account, else
\* ReadonlyLamportChange if the handle is not writable, else
\* ExecutableLamportChange if the account is executable-internal, else Ok with
\* the balance set to v; a refused call changes no account. So no step lowers
\* a balance except through a live handle whose frame's last program owns the
\* account, and no step changes a balance except through a writable handle.
C24_SetLamportsRuleOrder ==
    [][ /\ ( last'.op = "set_lamports" ) =>
             ( /\ last'.res =
                    (IF /\ last'.arg < accounts[last'.index + 1].lamports
                        /\ ~IsOwnedByCurrentProgram(last'.index)
                     THEN "ExternalAccountLamportSpend"
                     ELSE IF ~IsWritable(last'.index) THEN "ReadonlyLamportChange"
                     ELSE IF IsExecutableInternal(last'.index)
                     THEN "ExecutableLamportChange"
                     ELSE "Ok")
               /\ last'.res = "Ok" => accounts'[last'.index + 1].lamports = last'.arg
               /\ last'.res # "Ok" => accounts' = accounts )
        /\ \A i \in 1..Len(accounts) :
             /\ accounts'[i].lamports < accounts[i].lamports
                  => ( handles[i].st = "live" /\ IsOwnedByCurrentProgram(i - 1) )
             /\ accounts'[i].lamports # accounts[i].lamports
                  => ( handles[i].st = "live" /\ IsWritable(i - 1) ) ]_vars

\* set_lamports below the balance was refused as an external spend on a
\* read-only handle of account A, after A's owner was changed away from the
\* current program
C24_Witness ==
    /\ last = DataCall("set_lamports", 1, 0, "ExternalAccountLamportSpend")
    /\ handles[2].st = "live"
    /\ handles[2].index_in_instruction_accounts = 2
    /\ accounts[2].owner = "Q"
    /\ accounts[2].lamports = 1

\* The calls that change data bytes or length through a BorrowedAccount
DataOps == {"get_data_mut", "set_data_from_slice", "set_data_length", "extend_from_slice"}

\* The data length the call `call` asks for, the data being `data` before it
\* (get_data_mut asks for no length: it goes through can_data_be_changed only)
LengthAskedFor(call, data) ==
    IF call.op = "extend_from_slice" THEN data.len + call.arg
    ELSE IF call.op = "get_data_mut" THEN data.len
    ELSE call.arg

\* The first error, in the priority order of the data gates, of the call
\* `call` made on the handle of its slot in the current state
FirstDataError(call) ==
    LET data == accounts[call.index + 1].data
        new_len == LengthAskedFor(call, data)
        resizes == call.op # "get_data_mut"
    IN IF resizes /\ new_len # data.len /\ ~IsOwnedByCurrentProgram(call.index)
       THEN "AccountDataSizeChanged"
       ELSE IF resizes /\ new_len > MAX_PERMITTED_DATA_LENGTH
       THEN "InvalidRealloc"
       ELSE IF resizes /\ resize_delta + (new_len - data.len)
                            > MAX_PERMITTED_ACCOUNTS_DATA_ALLOCATIONS_PER_TRANSACTION
       THEN "MaxAccountsDataAllocationsExceeded"
       ELSE FirstChangeError(call.index)

\* C25: the data of an account changes in a step only through a live handle
\* that is writable and whose account is owned by the key of the frame's last
\* program account; get_data_mut, set_data_from_slice, set_data_length and
\* extend_from_slice on any other handle fail, changing nothing, with the
\* first error that applies in the order AccountDataSizeChanged (length change
\* by a non-owner), InvalidRealloc or MaxAccountsDataAllocationsExceeded,
\* ExecutableDataModified, ReadonlyDataModified, ExternalAccountDataModified.
C25_DataChangesByWritableOwner ==
    [][ /\ \A i \in 1..Len(accounts) :
             accounts'[i].data # accounts[i].data
               => ( /\ handles[i].st = "live"
                    /\ IsWritable(i - 1)
                    /\ IsOwnedByCurrentProgram(i - 1) )
        /\ ( /\ last'.op \in DataOps
             /\ ~( IsWritable(last'.index) /\ IsOwnedByCurrentProgram(last'.index) ) )
             => ( /\ last'.res # "Ok"
                  /\ last'.res = FirstDataError(last')
                  /\ UNCHANGED <<accounts, touched_flags, resize_delta>> ) ]_vars

\* get_data_mut was refused as read-only on a handle that is neither writable
\* nor of an account the current program owns
C25_Witness ==
    /\ last = DataCall("get_data_mut", 1, 0, "ReadonlyDataModified")
    /\ handles[2].st = "live"
    /\ handles[2].index_in_instruction_accounts = 2
    /\ accounts[2].owner = "Q"

\* ============================================= duplicates and the trace

\* A context of three ordinary accounts with room for a nested instruction
\* and for three instructions in the trace
FrameConstructions ==
    { [third |-> <<"B", Account(1, "P", FALSE, ZeroData(0))>>, stack |-> 2, trace |-> 3] }

InitFrames == NewOn(FrameConstructions, {FALSE})

\* The arguments of configure: account A listed twice, the second entry
\* marked as a duplicate of the first, and accounts A and B with B's
\* index_in_callee pointing at A's entry although B is another account
FrameConfigureInputs ==
    { [program_accounts |-> <<0>>,
       instruction_accounts |-> <<InstructionAccount(1, 0, FALSE, TRUE),
                                  InstructionAccount(1, 0, FALSE, TRUE)>>,
       instruction_data |-> <<>>],
      [program_accounts |-> <<0>>,
       instruction_accounts |-> <<InstructionAccount(1, 0, FALSE, TRUE),
                                  InstructionAccount(2, 0, FALSE, TRUE)>>,
       instruction_data |-> <<1>>] }

NextFrames ==
    \/ \E input \in FrameConfigureInputs : Configure(input)
    \/ Push
    \/ Pop
    \/ \E k \in 0..1 :
          /\ instruction_stack # <<>>
          /\ WithinBorrowBound(
                 TryBorrowInstructionAccountResult(Last(instruction_stack), k),
                 MaxOutstandingBorrows)
          /\ TryBorrowInstructionAccount(Last(instruction_stack), k)
          /\ last' = Other
    \/ \E index \in 0..NumberOfAccounts : DropBorrowedAccount(index)
    \/ \E index \in 0..NumberOfAccounts, lamports \in 0..MaxLamports :
          SetLamports(index, lamports)

SpecFrames == InitFrames /\ [][NextFrames]_vars

\* The instruction account at position p (from 0) of the frame points back at
\* an earlier entry of the same transaction account, or at no earlier entry
PointsBackCorrectly(frame, p) ==
    LET k == frame.instruction_accounts[p + 1].index_in_callee
    IN k < p => frame.instruction_accounts[k + 1].index_in_transaction =
                    frame.instruction_accounts[p + 1].index_in_transaction

\* The lamports of the instruction accounts from position p on whose
\* index_in_callee is their own position
RECURSIVE LamportsOfSelfMarkedFrom(_, _)
LamportsOfSelfMarkedFrom(frame, p) ==
    IF p >= Len(frame.instruction_accounts) THEN 0
    ELSE (IF frame.instruction_accounts[p + 1].index_in_callee = p
          THEN accounts[frame.instruction_accounts[p + 1].index_in_transaction + 1].lamports
          ELSE 0)
         + LamportsOfSelfMarkedFrom(frame, p + 1)

\* C26 as stated: in every frame that configure and push have accepted into
\* the trace, an instruction account at position p with index_in_callee = k < p
\* has the index_in_transaction of the instruction account at position k.
C26_DuplicateMarkers_AsStated ==
    \A t \in 1..(Len(instruction_trace) - 1) :
        \A p \in 0..(Len(instruction_trace[t].instruction_accounts) - 1) :
            PointsBackCorrectly(instruction_trace[t], p)

\* C26: configure and push check no duplicate marker. Every frame of the trace
\* carries the instruction accounts exactly as the caller passed them to
\* configure, wrong markers included, push freezes them as they are, and the
\* lamport sum push records trusts index_in_callee: it counts the entries whose
\* index_in_callee is their own position and skips all others. So a frame of
\* the trace has the stated property exactly when the caller's list has it.
C26_DuplicateMarkers ==
    [][ /\ \A t \in 1..Len(instruction_trace') :
             instruction_trace'[t].instruction_accounts \in
                 {<<>>} \cup { input.instruction_accounts : input \in FrameConfigureInputs }
        /\ Len(instruction_trace') > Len(instruction_trace)
             => LET frame == instruction_trace'[Len(instruction_trace)]
                IN /\ frame.instruction_accounts =
                          Last(instruction_trace).instruction_accounts
                   /\ frame.instruction_accounts_lamport_sum =
                          LamportsOfSelfMarkedFrom(frame, 0) ]_vars

\* A frame whose second instruction account points back at the entry of
\* another account was pushed, and only the first account was summed
C26_Witness ==
    /\ instruction_stack # <<>>
    /\ Len(CurrentInstructionContext.instruction_accounts) = 2
    /\ ~PointsBackCorrectly(CurrentInstructionContext, 1)
    /\ accounts[2].lamports = 0
    /\ accounts[3].lamports = 1
    /\ CurrentInstructionContext.instruction_accounts_lamport_sum = 0

\* The frame lists account A twice, both entries writable, the second marked
\* as a duplicate of the first
ListsTwice(frame) ==
    frame.instruction_accounts = <<InstructionAccount(1, 0, FALSE, TRUE),
                                   InstructionAccount(1, 0, FALSE, TRUE)>>

\* C27: for a frame that lists account A twice, the second entry marked as a
\* duplicate of the first, the lamport sum recorded at push is A's balance
\* counted once; set_lamports through the handle obtained from either entry
\* (one handle at a time) sets the balance of the one account A; and pop
\* returns Ok exactly when A's balance is again the recorded sum, so a change
\* through one entry restored through the other makes pop return Ok.
C27_DuplicateCountedOnce ==
    [][ /\ ( /\ Len(instruction_trace') > Len(instruction_trace)
             /\ ListsTwice(instruction_trace'[Len(instruction_trace)]) )
             => instruction_trace'[Len(instruction_trace)].instruction_accounts_lamport_sum
                    = accounts[2].lamports
        /\ ( /\ last'.op = "set_lamports"
             /\ last'.index = 1
             /\ ListsTwice(instruction_trace[handles[2].frame + 1]) )
             => ( /\ handles[2].index_in_instruction_accounts \in {0, 1}
                  /\ last'.res = "Ok"
                  /\ accounts'[2].lamports = last'.arg
                  /\ \A i \in 1..Len(accounts) :
                        i # 2 => accounts'[i] = accounts[i] )
        /\ ( /\ last'.op = "pop"
             /\ instruction_stack # <<>>
             /\ ListsTwice(CurrentInstructionContext) )
             => last'.res =
                  (IF accounts[2].lamports =
                        CurrentInstructionContext.instruction_accounts_lamport_sum
                   THEN "Ok" ELSE "UnbalancedInstruction") ]_vars

\* The only frame ever pushed listed A twice; A's balance was changed and
\* restored in it, and its pop returned Ok
C27_Witness ==
    /\ last = [op |-> "pop", res |-> "Ok"]
    /\ Len(instruction_trace) = 2
    /\ ListsTwice(instruction_trace[1])
    /\ touched_flags[2]
    /\ accounts[2].lamports = instruction_trace[1].instruction_accounts_lamport_sum

\* C28: in every reachable state every slot whose account (lamports, owner,
\* executable flag, data bytes or data length) differs from its value at
\* construction has its touched flag set, whichever operation made the change.
C28_MutatedSlotsTouched ==
    \A i \in 1..Len(accounts) :
        accounts[i] # initial_accounts[i] => touched_flags[i]

\* The trace indices of the frozen frames: every frame but the tail
FrozenIndices == 0..(Len(instruction_trace) - 2)

\* C29 as stated: the trace indices on the instruction stack are, bottom to
\* top, strictly increasing and exactly the last |stack| indices of the frozen
\* part of the trace.
C29_StackSuffixOfTrace_AsStated ==
    /\ \A i \in 1..(Len(instruction_stack) - 1) :
          instruction_stack[i] < instruction_stack[i + 1]
    /\ \A i \in 1..Len(instruction_stack) :
          instruction_stack[i] =
              (Len(instruction_trace) - 1) - Len(instruction_stack) + (i - 1)

\* C29: the trace indices on the instruction stack are, bottom to top,
\* strictly increasing indices of frozen frames. A push that returns Ok puts
\* the index of the last frozen frame on top of the stack it found, and a pop
\* takes the top index off; so the stack holds the last |stack| frozen indices
\* only as long as no frame pushed above its bottom has been popped.
C29_StackSuffixOfTrace ==
    /\ [] ( /\ \A i \in 1..(Len(instruction_stack) - 1) :
                  instruction_stack[i] < instruction_stack[i + 1]
            /\ \A i \in 1..Len(instruction_stack) :
                  instruction_stack[i] \in FrozenIndices )
    /\ [][ /\ ( last'.op = "push" /\ last'.res = "Ok" )
                => ( /\ instruction_stack' # <<>>
                     /\ Last(instruction_stack') = Len(instruction_trace') - 2
                     /\ Front(instruction_stack') = instruction_stack )
           /\ ( last'.op = "pop" /\ instruction_stack # <<>> )
                => instruction_stack' = Front(instruction_stack) ]_vars

\* A second instruction was pushed under the first after an earlier one had
\* been popped: the stack holds the frames 0 and 2, frame 1 lies between them
C29_Witness ==
    /\ instruction_stack = <<0, 2>>
    /\ Len(instruction_trace) = 4
    /\ last = [op |-> "push", res |-> "Ok"]

\* C30: the trace is append-only. No step of configure, push or pop makes it
\* shorter, and no step changes a frame that is not the tail of the trace:
\* its program accounts, instruction accounts, instruction data, nesting_level
\* and lamport sum stay as they were when the next frame was appended.
C30_TraceAppendOnly ==
    [][ /\ Len(instruction_trace') >= Len(instruction_trace)
        /\ \A t \in 1..(Len(instruction_trace) - 1) :
              instruction_trace'[t] = instruction_trace[t] ]_vars

\* Three frames are frozen in the trace, the second nested in the first, the
\* tail is configured for the next instruction and a frame has been popped
C30_Witness ==
    /\ Len(instruction_trace) = 4
    /\ instruction_trace[1].nesting_level = 0
    /\ instruction_trace[2].nesting_level = 1
    /\ Last(instruction_trace).instruction_accounts # <<>>
    /\ Len(instruction_stack) < 2

\* ============================================= the caller's balance at push

\* C31 as stated: a push with a frame on the stack returns
\* UnbalancedInstruction, stack, trace and accounts unchanged, whenever the
\* lamports of the caller frame's distinct instruction accounts do not add up
\* to the sum recorded when the caller was pushed; a push on an empty stack
\* never returns UnbalancedInstruction.
C31_NestedPushChecksCaller_AsStated ==
    [][ last'.op = "push" =>
          /\ ( /\ instruction_stack # <<>>
               /\ BalancedResult(CurrentInstructionContext) = "UnbalancedInstruction" )
               => ( /\ last'.res = "UnbalancedInstruction"
                    /\ UNCHANGED <<instruction_stack, instruction_trace, accounts>> )
          /\ instruction_stack = <<>> => last'.res # "UnbalancedInstruction" ]_vars

\* C31: the lamport sum of the frame being pushed and then that of the caller
\* are computed first, and an error of either (an instruction account that
\* does not exist or is mutably borrowed) is what push returns. Where both
\* can be computed, a push with a frame on the stack whose duplicate markers
\* are correct returns UnbalancedInstruction whenever the lamports of the
\* caller's distinct instruction accounts do not add up to the recorded sum.
\* In each of these cases stack, trace and accounts are unchanged. A push on
\* an empty stack never returns UnbalancedInstruction.
C31_NestedPushChecksCaller ==
    [][ last'.op = "push" =>
          /\ ( /\ instruction_stack # <<>>
               /\ BalancedResult(CurrentInstructionContext) = "UnbalancedInstruction" )
               => ( /\ last'.res =
                         (IF InstructionAccountsLamportSum(Last(instruction_trace)).res # "Ok"
                          THEN InstructionAccountsLamportSum(Last(instruction_trace)).res
                          ELSE IF ~InstructionAccountsReadable(CurrentInstructionContext)
                          THEN InstructionAccountsLamportSum(CurrentInstructionContext).res
                          ELSE "UnbalancedInstruction")
                    /\ last'.res \in LamportSumErrors \cup {"UnbalancedInstruction"}
                    /\ ( /\ InstructionAccountsReadable(Last(instruction_trace))
                         /\ InstructionAccountsReadable(CurrentInstructionContext) )
                         => last'.res = "UnbalancedInstruction"
                    /\ UNCHANGED <<instruction_stack, instruction_trace, accounts>> )
          /\ instruction_stack = <<>> => last'.res # "UnbalancedInstruction" ]_vars

\* A nested push has just been refused because the caller on top of the stack
\* is unbalanced
C31_Witness ==
    /\ last = [op |-> "push", res |-> "UnbalancedInstruction"]
    /\ instruction_stack # <<>>
    /\ BalancedResult(CurrentInstructionContext) = "UnbalancedInstruction"
    /\ InstructionAccountsReadable(CurrentInstructionContext)

\* ================================================== nesting levels

\* InstructionContext::get_stack_height
GetStackHeight(frame) == frame.nesting_level + 1

\* C32: in every reachable state, for every position k (from 0) of the
\* instruction stack, the frame at trace index stack[k] has nesting_level = k
\* and get_stack_height() = k + 1, so the debug assertion of
\* get_instruction_context_at_nesting_level holds, also after failed pushes
\* and after pops that returned an error.
C32_NestingLevelIsStackPosition ==
    \A k \in 0..(Len(instruction_stack) - 1) :
        /\ instruction_stack[k + 1] + 1 \in 1..Len(instruction_trace)
        /\ instruction_trace[instruction_stack[k + 1] + 1].nesting_level = k
        /\ GetStackHeight(instruction_trace[instruction_stack[k + 1] + 1]) = k + 1

\* A push on the full stack failed with CallDepth, leaving a third frame in
\* the trace, and the pop of the nested frame then returned an error
C32_Witness ==
    /\ last = [op |-> "pop", res |-> "UnbalancedInstruction"]
    /\ instruction_stack = <<0>>
    /\ call_depth_failures = 1
    /\ Len(instruction_trace) = 4
    /\ instruction_trace[3].nesting_level = 2

\* ============================================= lamports of the transaction

\* A context whose third account B is owned by the program and holds no
\* lamports, with room for a nested instruction
LamportConstructions ==
    { [third |-> <<"B", Account(0, "P", FALSE, ZeroData(0))>>, stack |-> 2, trace |-> 3] }

InitLamports == NewOn(LamportConstructions, {FALSE})

\* The arguments of configure: account A alone, and accounts A and B, all
\* writable and with correct duplicate markers
LamportConfigureInputs ==
    { [program_accounts |-> <<0>>,
       instruction_accounts |-> <<InstructionAccount(1, 0, FALSE, TRUE)>>,
       instruction_data |-> <<>>],
      [program_accounts |-> <<0>>,
       instruction_accounts |-> <<InstructionAccount(1, 0, FALSE, TRUE),
                                  InstructionAccount(2, 1, FALSE, TRUE)>>,
       instruction_data |-> <<>>] }

\* The runs in which every push and every pop returns Ok and lamports change
\* only through a BorrowedAccount of the frame on top of the stack
NextLamports ==
    \/ \E input \in LamportConfigureInputs : Configure(input)
    \/ PushOutcome.res = "Ok" /\ Push
    \/ PopOutcome.res = "Ok" /\ Pop
    \/ \E k \in 0..1 :
          /\ instruction_stack # <<>>
          /\ WithinBorrowBound(
                 TryBorrowInstructionAccountResult(Last(instruction_stack), k),
                 MaxOutstandingBorrows)
          /\ TryBorrowInstructionAccount(Last(instruction_stack), k)
          /\ last' = Other
    \/ \E index \in 0..NumberOfAccounts : DropBorrowedAccount(index)
    \/ \E index \in 0..NumberOfAccounts, lamports \in 0..MaxLamports :
          SetLamports(index, lamports)

SpecLamports == InitLamports /\ [][NextLamports]_vars

\* The lamports of the accounts from slot i (from 1) on
RECURSIVE TotalLamportsFrom(_, _)
TotalLamportsFrom(pool, i) ==
    IF i > Len(pool) THEN 0 ELSE pool[i].lamports + TotalLamportsFrom(pool, i + 1)

\* Every frozen frame with a caller lists only transaction accounts that its
\* caller lists: the caller of the frame at trace position t is the last
\* frame before it with the next lower nesting_level
NestedWithinCallers ==
    \A t \in 1..(Len(instruction_trace) - 1) :
        instruction_trace[t].nesting_level > 0 =>
            \E u \in 1..(t - 1) :
                /\ instruction_trace[u].nesting_level =
                       instruction_trace[t].nesting_level - 1
                /\ \A v \in (u + 1)..(t - 1) :
                       instruction_trace[v].nesting_level #
                           instruction_trace[t].nesting_level - 1
                /\ DistinctInstructionAccounts(instruction_trace[t]) \subseteq
                       DistinctInstructionAccounts(instruction_trace[u])

\* C33 as stated: when lamports change only through a BorrowedAccount of the
\* frame on top of the stack, duplicate markers are correct and every push
\* and pop returns Ok, then whenever the stack is empty the lamports of all
\* accounts add up to their total at construction.
C33_LamportsConserved_AsStated ==
    instruction_stack = <<>>
        => TotalLamportsFrom(accounts, 1) = TotalLamportsFrom(initial_accounts, 1)

\* C33: under the same conditions and if moreover every nested frame lists
\* only transaction accounts that its caller lists, then whenever the stack
\* is empty the lamports of all accounts add up to their total at
\* construction. A nested frame that lists an account its caller does not
\* list can move lamports to or from it, balanced within itself, and the
\* caller can bring its own sum back to the recorded one with the total
\* changed.
C33_LamportsConserved ==
    ( instruction_stack = <<>> /\ NestedWithinCallers )
        => TotalLamportsFrom(accounts, 1) = TotalLamportsFrom(initial_accounts, 1)

\* A frame listing A and B called a frame listing A; a lamport went from A to
\* B, both pops returned Ok and the stack is empty
C33_Witness ==
    /\ instruction_stack = <<>>
    /\ last = [op |-> "pop", res |-> "Ok"]
    /\ Len(instruction_trace) = 3
    /\ Len(instruction_trace[1].instruction_accounts) = 2
    /\ instruction_trace[2].nesting_level = 1
    /\ NestedWithinCallers
    /\ accounts[2].lamports = 0
    /\ accounts[3].lamports = 1

\* ============================================ the handler and data lengths

\* A context of three ordinary accounts without data, on either build
InitHandler ==
    NewOn({[third |-> <<"B", Account(1, "P", FALSE, ZeroData(0))>>, stack |-> 1, trace |-> 1]},
          BOOLEAN)

\* The arguments of configure: account A, writable
HandlerConfigureInput ==
    [program_accounts |-> <<0>>,
     instruction_accounts |-> <<InstructionAccount(1, 0, FALSE, TRUE)>>,
     instruction_data |-> <<>>]

\* The VM maps account A, the program resizes it through a BorrowedAccount,
\* and the VM calls the handler for a store of one or two bytes at the start
\* of the region, with one or three bytes of address space reserved
NextHandler ==
    \/ Configure(HandlerConfigureInput)
    \/ Push
    \/ /\ instruction_stack # <<>>
       /\ WithinBorrowBound(
              TryBorrowInstructionAccountResult(Last(instruction_stack), 0),
              MaxOutstandingBorrows)
       /\ TryBorrowInstructionAccount(Last(instruction_stack), 0)
       /\ last' = Other
    \/ \E index \in 0..NumberOfAccounts : DropBorrowedAccount(index)
    \/ \E index \in 0..NumberOfAccounts, new_length \in 0..2 :
          SetDataLength(index, new_length)
    \/ \E payload \in {-1, 1} : MapRegion(payload)
    \/ \E reserved \in {1, 3}, access_type \in {"Load", "Store"}, len \in 1..2 :
          AccessViolationHandler(reserved, access_type, 0, len)

SpecHandler == InitHandler /\ [][NextHandler]_vars

\* C34: the access-violation handler never decreases an account's data
\* length: whatever the region's len, the reserved address space and the
\* resize_delta, the data of every account is at least as long after an
\* invocation as before it.
C34_HandlerNeverShrinks ==
    [][ last'.op = "access_violation_handler"
          => \A i \in 1..Len(accounts) :
                accounts'[i].data.len >= accounts[i].data.len ]_vars

\* ================================================== refused calls

\* The calls of a BorrowedAccount that change its account
MutatingOps ==
    {"set_owner", "set_lamports", "checked_add_lamports", "checked_sub_lamports",
     "set_executable"} \cup DataOps

\* C35: when set_owner, set_lamports, checked_add_lamports,
\* checked_sub_lamports, set_data_from_slice, set_data_length,
\* extend_from_slice, get_data_mut or set_executable returns an error, every
\* account (lamports, owner, executable flag, data), every touched flag and
\* resize_delta are the same as before the call.
C35_RefusedCallChangesNothing ==
    [][ ( last'.op \in MutatingOps /\ last'.res # "Ok" )
          => UNCHANGED <<accounts, touched_flags, resize_delta>> ]_vars

\* checked_sub_lamports of more than the balance has just been refused on an
\* account that was touched before and holds no lamports
C35_Witness ==
    /\ last = DataCall("checked_sub_lamports", 1, 1, "ArithmeticOverflow")
    /\ accounts[2].lamports = 0
    /\ touched_flags[2]

\* ============================================ handles of program accounts

\* A context with a rent of one lamport and three accounts
ProgramHandleConstructions ==
    { [third |-> <<"B", Account(1, "P", FALSE, ZeroData(0))>>, rent |-> 1,
       stack |-> 1, trace |-> 1] }

InitProgramHandle == NewOn(ProgramHandleConstructions, {FALSE})

\* The arguments of configure: account A is the first program account and
\* also a signing, writable instruction account; the program P is the last
\* program account and owns A
ProgramHandleConfigureInput ==
    [program_accounts |-> <<1, 0>>,
     instruction_accounts |-> <<InstructionAccount(1, 0, TRUE, TRUE)>>,
     instruction_data |-> <<>>]

\* The program borrows A as instruction account or A and P as program
\* accounts, one at a time, and calls the mutators on the handle
NextProgramHandle ==
    \/ Configure(ProgramHandleConfigureInput)
    \/ Push
    \/ /\ instruction_stack # <<>>
       /\ WithinBorrowBound(
              TryBorrowInstructionAccountResult(Last(instruction_stack), 0),
              MaxOutstandingBorrows)
       /\ TryBorrowInstructionAccount(Last(instruction_stack), 0)
       /\ last' = Other
    \/ \E k \in 0..1 :
          /\ instruction_stack # <<>>
          /\ WithinBorrowBound(
                 TryBorrowProgramAccountResult(Last(instruction_stack), k),
                 MaxOutstandingBorrows)
          /\ TryBorrowProgramAccount(Last(instruction_stack), k)
          /\ last' = Other
    \/ \E index \in 0..NumberOfAccounts : DropBorrowedAccount(index)
    \/ \E index \in 0..NumberOfAccounts, pubkey \in {"P", "Q"} : SetOwner(index, pubkey)
    \/ \E index \in 0..NumberOfAccounts, lamports \in 0..MaxLamports :
          SetLamports(index, lamports)
    \/ \E index \in 0..NumberOfAccounts, is_executable \in BOOLEAN :
          SetExecutable(index, is_executable)
    \/ \E index \in 0..NumberOfAccounts, new_length \in 0..1 :
          SetDataLength(index, new_length)
    \/ \E index \in 0..NumberOfAccounts : SetDataFromSlice(index, ZeroData(1))
    \/ \E index \in 0..NumberOfAccounts, len \in {0, 1} :
          /\ InRange(index)
          /\ len = 0 \/ accounts[index + 1].data.len < MaxExtendedLength
          /\ ExtendFromSlice(index, ZeroData(len))
    \/ \E index \in 0..NumberOfAccounts : GetDataMut(index, 0, 1)

SpecProgramHandle == InitProgramHandle /\ [][NextProgramHandle]_vars

\* The live handle of slot i (from 1) was obtained through
\* try_borrow_program_account: it has no index_in_instruction_accounts
ProgramHandle(i) ==
    handles[i].st = "live" /\ handles[i].index_in_instruction_accounts = -1

\* The call changes its account if it is let through: every call of the
\* mutators but set_lamports with the current balance and extend_from_slice
\* with an empty slice
AsksForAChange(call) ==
    /\ call.op \in {"set_owner", "set_lamports", "set_executable"} \cup DataOps
    /\ call.op = "set_lamports" => call.arg # accounts[call.index + 1].lamports
    /\ call.op = "extend_from_slice" => call.arg # 0

\* C36: a BorrowedAccount obtained through try_borrow_program_account (or
\* try_borrow_last_program_account) is neither writable nor a signer, and
\* every call on it of set_owner, set_lamports with another value,
\* get_data_mut, set_data_from_slice, set_data_length, extend_from_slice with
\* a non-empty slice or set_executable returns an error and leaves every
\* account, touched flag and resize_delta unchanged.
C36_ProgramHandleReadOnly ==
    /\ [] ( \A i \in 1..Len(handles) :
               ProgramHandle(i) => ( ~IsWritable(i - 1) /\ ~IsSigner(i - 1) ) )
    /\ [][ ( /\ AsksForAChange(last')
             /\ ProgramHandle(last'.index + 1) )
             => ( /\ last'.res # "Ok"
                  /\ UNCHANGED <<accounts, touched_flags, resize_delta>> ) ]_vars

\* set_lamports has just been refused on the handle of A borrowed as program
\* account, although the current program owns A and A is a writable, signing
\* instruction account of the frame
C36_Witness ==
    /\ last = DataCall("set_lamports", 1, 0, "ReadonlyLamportChange")
    /\ ProgramHandle(2)
    /\ accounts[2].owner = "P"
    /\ accounts[2].lamports = 1

\* ============================================ borrows taken inside a call

====
